---- MODULE Spec2Model ----
(***************************************************************************)
(* DataInfraPilot: the client store (zustand `useClusterStore`), the deploy *)
(* wizard that feeds it, and the REST control plane it talks to.            *)
(*                                                                          *)
(* Every asynchronous store operation is split at its `await` and at its    *)
(* `setTimeout`: the synchronous prefix is one action, the server handling  *)
(* the request is one action, the continuation that runs when the response  *)
(* (or the timer) arrives is one action.  Requests in flight and armed      *)
(* timers are the records of `calls` and `fetches`.                         *)
(***************************************************************************)
EXTENDS Integers, Sequences, FiniteSets, TLC

\* ------------------------------------------------------------------ bounds
MaxOps == 3                  \* user commands issued in one behaviour
MaxInFlight == 2             \* requests and timers outstanding at once

ClusterNames == {"prod"}
VolumeNames == {"airflow-logs"}

\* ------------------------------------------------------------- lifecycle
CREATING == "creating"
RUNNING == "running"
UPDATING == "updating"
DEPLOYING == "deploying"
FAILED == "failed"
DELETING == "deleting"
PENDING == "pending"

Terminal == {RUNNING, FAILED}
Early == {PENDING, CREATING}

VARIABLES
  clusters,       \* store: Cluster[] (each with its deployments)
  volumes,        \* store: Volume[]
  domainActivities, \* store: actions of the activity log, newest first
  calls,          \* store operations suspended at an await or a timer
  fetches,        \* fetchClusters / fetchVolumes suspended at their await
  nextId,         \* source of fresh client ids (uuidv4, Math.random)
  ops,            \* number of user commands issued so far
  bClusters,      \* control plane: cluster rows
  bDeployments,   \* control plane: deployment rows
  bVolumes,       \* control plane: volume rows
  bNextId,        \* control plane: next row id
  errored,        \* client ids of rows whose operation took its error path
  extFail,        \* an external failure (network, provider) has happened
  wqueue,         \* orchestrator: the command queue of each cluster's worker
  wrun,           \* orchestrator: the commands being executed
  wstatus,        \* orchestrator: the persisted status of each cluster
  wreason,        \* orchestrator: why a cluster is failed
  provider,       \* IaaS: the resources that exist, by (cluster label, step)
  recorded,       \* orchestrator: the resource ids stored locally
  wcount,         \* orchestrator: commands submitted so far
  wrejected,      \* orchestrator: the commands answered 503
  wleaked,        \* IaaS: resources made by a call that did not return their id
  controlPlane,   \* CreateClusterModal: the control-plane pool, or Null
  nodePools,      \* CreateClusterModal: the worker pools
  apiPayload,     \* createCluster: the pools of the request, <<>> before submit
  readBack,       \* the pools of the cluster as mapped from the API, or Null
  domainName,     \* DeployAppModal: cluster.domainName, <<>> when there is none
  catalog,        \* control plane: the access-endpoint schema of the application
  step,           \* DeployAppModal: the step of the wizard, "closed" when shut
  config,         \* DeployAppModal: the application configuration
  accessEndpoints,  \* DeployAppModal: the endpoint schema as fetched
  endpointConfigs,  \* DeployAppModal: the endpoint configurations
  deployment,     \* the deployment createDeployment put in the store, or Null
  modal,          \* CreateClusterModal: the step and the fields of the dialog
  health          \* useHealthCheck: its props, its state and its requests

storeVars == <<clusters, volumes, domainActivities>>
asyncVars == <<calls, fetches, nextId, ops>>
backVars == <<bClusters, bDeployments, bVolumes, bNextId>>
ghostVars == <<errored, extFail>>
workerVars ==
  <<wqueue, wrun, wstatus, wreason, provider, recorded, wcount, wrejected, wleaked>>
uiVars == <<controlPlane, nodePools, apiPayload, readBack>>
wizVars ==
  <<domainName, catalog, step, config, accessEndpoints, endpointConfigs, deployment>>
pageVars == <<modal, health>>
vars == <<storeVars, asyncVars, backVars, ghostVars, workerVars, uiVars, wizVars, pageVars>>

\* ---------------------------------------------------------------- helpers
Range(s) == {s[i] : i \in DOMAIN s}
MapSeq(s, F(_)) == [i \in DOMAIN s |-> F(s[i])]
Filter(s, P(_)) == SelectSeq(s, P)

TmpId(n) == <<"tmp", n>>
ApiId(n) == <<"api", n>>
NoId == <<"none", 0>>

NoPayload == [name |-> "", app |-> "", vols |-> <<>>, eps |-> <<>>, idx |-> 0, cur |-> FALSE]

Call(n, op, ph, id, cid, resp, payload) ==
  [n |-> n, op |-> op, ph |-> ph, id |-> id, cid |-> cid, resp |-> resp,
   prev |-> "", payload |-> payload]

InFlight == Cardinality(calls) + Cardinality(fetches)
CanIssue == ops < MaxOps /\ InFlight < MaxInFlight

\* --------------------------------------------------- control plane reads
\* GET /clusters/ : the cluster rows joined with their deployments
ApiClusters ==
  MapSeq(bClusters, LAMBDA r :
    [id |-> r.id, name |-> r.name, status |-> r.status,
     access_ip |-> r.access_ip, error_message |-> r.error_message,
     deployments |-> Filter(bDeployments, LAMBDA d : d.cluster_id = r.id)])

BInUse(name) == \E i \in DOMAIN bDeployments : name \in bDeployments[i].volumes

\* GET /volumes/
ApiVolumes ==
  MapSeq(bVolumes, LAMBDA r :
    [id |-> r.id, name |-> r.name, status |-> r.status, in_use |-> BInUse(r.name)])

\* ------------------------------------------------------ api.ts mappings
mapApiDeployment(d) ==
  [id |-> ApiId(d.id), name |-> d.name, app |-> d.app, status |-> d.status,
   volumes |-> {}, accessEndpoints |-> d.endpoints]

mapApiClusterToUICluster(c) ==
  [id |-> ApiId(c.id), name |-> c.name, status |-> c.status,
   access_ip |-> c.access_ip, errorMessage |-> c.error_message,
   deployments |-> MapSeq(c.deployments, mapApiDeployment)]

\* in_use is not carried over: the UI volume has no inUse (falsy)
mapApiVolumeToUIVolume(v) ==
  [id |-> ApiId(v.id), name |-> v.name, status |-> v.status, inUse |-> FALSE]

\* ------------------------------------------------------------ store edits
SetClusterStatus(cs, id, st) ==
  MapSeq(cs, LAMBDA c : IF c.id = id THEN [c EXCEPT !.status = st] ELSE c)

ClusterIds == {clusters[i].id : i \in DOMAIN clusters}
ClusterById(id) == CHOOSE c \in Range(clusters) : c.id = id


Replace(cs, c, d) == (cs \ {c}) \cup {d}

\* ===================================================== cluster lifecycle
\* createCluster, up to `await api.createCluster(apiPayload)`; clusterData is
\* what CreateClusterModal.handleSubmit passes
CreateCluster(name) ==
  /\ CanIssue
  /\ LET tempCluster == [id |-> TmpId(nextId), name |-> name, status |-> CREATING,
                         access_ip |-> "Not available yet", errorMessage |-> "",
                         deployments |-> <<>>]
     IN /\ clusters' = Append(clusters, tempCluster)
        /\ domainActivities' = <<"creating">> \o domainActivities
        /\ calls' = calls \cup {Call(nextId, "createCluster", "sent", tempCluster.id, NoId, "",
                                     [NoPayload EXCEPT !.name = name])}
  /\ nextId' = nextId + 1
  /\ ops' = ops + 1
  /\ UNCHANGED <<volumes, fetches, backVars, ghostVars, workerVars, uiVars, wizVars, health>>

\* POST /clusters/ : 409 on a duplicate name, else the row is recorded and
\* accepted as creating
BackendCreateCluster(c) ==
  /\ c \in calls /\ c.op = "createCluster" /\ c.ph = "sent"
  /\ IF \E i \in DOMAIN bClusters : bClusters[i].name = c.payload.name
       THEN /\ calls' = Replace(calls, c, [c EXCEPT !.ph = "err", !.resp = "conflict"])
            /\ UNCHANGED backVars
       ELSE /\ bClusters' = Append(bClusters,
                 [id |-> bNextId, name |-> c.payload.name, status |-> CREATING,
                  access_ip |-> "", error_message |-> ""])
            /\ bNextId' = bNextId + 1
            /\ calls' = Replace(calls, c, [c EXCEPT !.ph = "ok", !.resp = CREATING])
            /\ UNCHANGED <<bDeployments, bVolumes>>
  /\ UNCHANGED <<storeVars, fetches, nextId, ops, ghostVars, workerVars, uiVars, wizVars, pageVars>>

\* createCluster after the await: status from the response, fetch in 10 s
CreateClusterOk(c) ==
  /\ c \in calls /\ c.op = "createCluster" /\ c.ph = "ok"
  /\ clusters' = SetClusterStatus(clusters, c.id, c.resp)
  /\ calls' = Replace(calls, c, [c EXCEPT !.op = "fetchTimer", !.ph = "timer"])
  /\ UNCHANGED <<volumes, domainActivities, fetches, nextId, ops, backVars, ghostVars, workerVars, uiVars, wizVars, pageVars>>

\* createCluster's catch
CreateClusterErr(c) ==
  /\ c \in calls /\ c.op = "createCluster" /\ c.ph = "err"
  /\ clusters' = SetClusterStatus(clusters, c.id, FAILED)
  /\ calls' = calls \ {c}
  /\ errored' = errored \cup {c.id}
  /\ UNCHANGED <<volumes, domainActivities, fetches, nextId, ops, backVars, extFail, workerVars, uiVars, wizVars, pageVars>>

\* the 10 s timer of createCluster fires: get().fetchClusters()
FetchTimerFire(c) ==
  /\ c \in calls /\ c.op = "fetchTimer" /\ c.ph = "timer"
  /\ calls' = calls \ {c}
  /\ fetches' = fetches \cup {[n |-> c.n, kind |-> "clusters", ph |-> "sent", snap |-> <<>>]}
  /\ UNCHANGED <<storeVars, nextId, ops, backVars, ghostVars, workerVars, uiVars, wizVars, pageVars>>

\* fetchClusters called by a page (Clusters, ClusterDetails) on mount
FetchClusters ==
  /\ CanIssue
  /\ fetches' = fetches \cup {[n |-> nextId, kind |-> "clusters", ph |-> "sent", snap |-> <<>>]}
  /\ nextId' = nextId + 1
  /\ ops' = ops + 1
  /\ UNCHANGED <<storeVars, calls, backVars, ghostVars, workerVars, uiVars, wizVars, pageVars>>

\* GET /clusters/ answered from the rows as they are now
BackendGetClusters(f) ==
  /\ f \in fetches /\ f.kind = "clusters" /\ f.ph = "sent"
  /\ fetches' = Replace(fetches, f, [f EXCEPT !.ph = "ok", !.snap = ApiClusters])
  /\ UNCHANGED <<storeVars, calls, nextId, ops, backVars, ghostVars, workerVars, uiVars, wizVars, pageVars>>

\* fetchClusters after the await: set({ clusters: uiClusters })
FetchClustersOk(f) ==
  /\ f \in fetches /\ f.kind = "clusters" /\ f.ph = "ok"
  /\ clusters' = MapSeq(f.snap, mapApiClusterToUICluster)
  /\ fetches' = fetches \ {f}
  /\ UNCHANGED <<volumes, domainActivities, calls, nextId, ops, backVars, ghostVars, workerVars, uiVars, wizVars, pageVars>>

\* fetchClusters / fetchVolumes catch: a toast, the store is left alone
FetchErr(f) ==
  /\ f \in fetches /\ f.ph = "err"
  /\ fetches' = fetches \ {f}
  /\ UNCHANGED <<storeVars, calls, nextId, ops, backVars, ghostVars, workerVars, uiVars, wizVars, pageVars>>

\* a request is lost before the control plane sees it
CallNetworkFail(c) ==
  /\ c \in calls /\ c.ph = "sent"
  /\ calls' = Replace(calls, c, [c EXCEPT !.ph = "err", !.resp = "network"])
  /\ extFail' = TRUE
  /\ UNCHANGED <<storeVars, fetches, nextId, ops, backVars, errored, workerVars, uiVars, wizVars, pageVars>>

FetchNetworkFail(f) ==
  /\ f \in fetches /\ f.ph = "sent"
  /\ fetches' = Replace(fetches, f, [f EXCEPT !.ph = "err"])
  /\ extFail' = TRUE
  /\ UNCHANGED <<storeVars, calls, nextId, ops, backVars, errored, workerVars, uiVars, wizVars, pageVars>>

\* deleteCluster, up to `await api.deleteCluster(clusterId)`
DeleteCluster(id) ==
  /\ CanIssue
  /\ id \in ClusterIds
  /\ clusters' = SetClusterStatus(clusters, id, DELETING)
  /\ domainActivities' = <<"deleting">> \o domainActivities
  /\ calls' = calls \cup {Call(nextId, "deleteCluster", "sent", id, NoId, "", NoPayload)}
  /\ nextId' = nextId + 1
  /\ ops' = ops + 1
  /\ UNCHANGED <<volumes, fetches, backVars, ghostVars, workerVars, uiVars, wizVars, pageVars>>

\* DELETE /clusters/{id} : 404 on an unknown id, else 202 and the row is deleting
BackendDeleteCluster(c) ==
  /\ c \in calls /\ c.op = "deleteCluster" /\ c.ph = "sent"
  /\ IF \E i \in DOMAIN bClusters : ApiId(bClusters[i].id) = c.id
       THEN /\ bClusters' = MapSeq(bClusters, LAMBDA r :
                 IF ApiId(r.id) = c.id THEN [r EXCEPT !.status = DELETING] ELSE r)
            /\ calls' = Replace(calls, c, [c EXCEPT !.ph = "ok"])
       ELSE /\ calls' = Replace(calls, c, [c EXCEPT !.ph = "err", !.resp = "not_found"])
            /\ UNCHANGED bClusters
  /\ UNCHANGED <<storeVars, fetches, nextId, ops, bDeployments, bVolumes, bNextId, ghostVars, workerVars, uiVars, wizVars, pageVars>>

\* deleteCluster after the await: removal in 8 s
DeleteClusterOk(c) ==
  /\ c \in calls /\ c.op = "deleteCluster" /\ c.ph = "ok"
  /\ calls' = Replace(calls, c, [c EXCEPT !.ph = "timer"])
  /\ UNCHANGED <<storeVars, fetches, nextId, ops, backVars, ghostVars, workerVars, uiVars, wizVars, pageVars>>

\* the 8 s timer of deleteCluster fires
DeleteClusterTimer(c) ==
  /\ c \in calls /\ c.op = "deleteCluster" /\ c.ph = "timer"
  /\ clusters' = Filter(clusters, LAMBDA x : x.id # c.id)
  /\ domainActivities' = <<"deleted">> \o domainActivities
  /\ calls' = calls \ {c}
  /\ UNCHANGED <<volumes, fetches, nextId, ops, backVars, ghostVars, workerVars, uiVars, wizVars, pageVars>>

\* deleteCluster's catch
DeleteClusterErr(c) ==
  /\ c \in calls /\ c.op = "deleteCluster" /\ c.ph = "err"
  /\ clusters' = SetClusterStatus(clusters, c.id, FAILED)
  /\ calls' = calls \ {c}
  /\ errored' = errored \cup {c.id}
  /\ UNCHANGED <<volumes, domainActivities, fetches, nextId, ops, backVars, extFail, workerVars, uiVars, wizVars, pageVars>>

\* -------------------------------------------- control plane, cluster rows
\* the create procedure of a cluster ends: running with its access IP ...
BackendProvisionDone(i) ==
  /\ i \in DOMAIN bClusters /\ bClusters[i].status = CREATING
  /\ bClusters' = [bClusters EXCEPT ![i].status = RUNNING, ![i].access_ip = "ip"]
  /\ UNCHANGED <<storeVars, asyncVars, bDeployments, bVolumes, bNextId, ghostVars, workerVars, uiVars, wizVars, pageVars>>

\* ... or a step fails: failed with the error captured
BackendProvisionFail(i) ==
  /\ i \in DOMAIN bClusters /\ bClusters[i].status = CREATING
  /\ bClusters' = [bClusters EXCEPT ![i].status = FAILED, ![i].error_message = "step"]
  /\ extFail' = TRUE
  /\ UNCHANGED <<storeVars, asyncVars, bDeployments, bVolumes, bNextId, errored, workerVars, uiVars, wizVars, pageVars>>

\* teardown succeeds: the row and its deployments are removed
BackendTeardownDone(i) ==
  /\ i \in DOMAIN bClusters /\ bClusters[i].status = DELETING
  /\ bClusters' = Filter(bClusters, LAMBDA r : r.id # bClusters[i].id)
  /\ bDeployments' = Filter(bDeployments, LAMBDA d : d.cluster_id # bClusters[i].id)
  /\ UNCHANGED <<storeVars, asyncVars, bVolumes, bNextId, ghostVars, workerVars, uiVars, wizVars, pageVars>>

\* teardown fails: the row stays, failed
BackendTeardownFail(i) ==
  /\ i \in DOMAIN bClusters /\ bClusters[i].status = DELETING
  /\ bClusters' = [bClusters EXCEPT ![i].status = FAILED, ![i].error_message = "teardown"]
  /\ extFail' = TRUE
  /\ UNCHANGED <<storeVars, asyncVars, bDeployments, bVolumes, bNextId, errored, workerVars, uiVars, wizVars, pageVars>>

WClusters == {1, 2}

\* every worker idle, no cluster recorded, nothing at the provider
WorkerInit ==
  /\ wqueue = [c \in WClusters |-> <<>>]
  /\ wrun = {}
  /\ wstatus = [c \in WClusters |-> "none"]
  /\ wreason = [c \in WClusters |-> ""]
  /\ provider = {}
  /\ recorded = {}
  /\ wcount = 0
  /\ wrejected = {}
  /\ wleaked = {}

Null == [null |-> TRUE]

\* the create-cluster dialog as its open effect leaves it
\* a text of n characters c
Chars(n, c) == [i \in 1..n |-> c]

\* CreateClusterModal as its useState calls leave it, shut (step 0); the
\* Traefik username and password are sequences of characters
modalDefaults ==
  [currentStep |-> 0, name |-> "", nameError |-> "", selectedProvider |-> "",
   sshPrivateKeyPath |-> "~/.ssh/id_rsa", sshPublicKeyPath |-> "~/.ssh/id_rsa.pub",
   providerApiToken |-> "",
   traefik_dashboard |-> [enabled |-> TRUE, username |-> Chars(5, "a"), password |-> <<>>]]

\* useHealthCheck mounted on a deployment that is being installed
PageInit ==
  /\ modal = modalDefaults
  /\ health = [deploymentStatus |-> DEPLOYING, endpoint |-> "", healthStatus |-> "pending",
               errorMessage |-> "", requests |-> 0]

UiInit ==
  /\ controlPlane = Null
  /\ nodePools = <<>>
  /\ apiPayload = <<>>
  /\ readBack = Null

\* the deploy dialog shut, on a cluster without a domain
WizInit ==
  /\ domainName = <<>>
  /\ catalog = <<>>
  /\ step = "closed"
  /\ config = Null
  /\ accessEndpoints = <<>>
  /\ endpointConfigs = <<>>
  /\ deployment = Null

\* the store once the start-up fetch against an empty control plane is in
StoreInit ==
  /\ clusters = <<>> /\ volumes = <<>> /\ domainActivities = <<>>
  /\ calls = {} /\ fetches = {} /\ nextId = 1 /\ ops = 0
  /\ bClusters = <<>> /\ bDeployments = <<>> /\ bVolumes = <<>> /\ bNextId = 1
  /\ errored = {} /\ extFail = FALSE

Init ==
  /\ StoreInit
  /\ WorkerInit
  /\ UiInit
  /\ WizInit
  /\ PageInit

Next ==
  \/ \E name \in ClusterNames : CreateCluster(name) /\ UNCHANGED modal
  \/ \E c \in calls : BackendCreateCluster(c)
  \/ \E c \in calls : CreateClusterOk(c)
  \/ \E c \in calls : CreateClusterErr(c)
  \/ \E c \in calls : FetchTimerFire(c)
  \/ FetchClusters
  \/ \E f \in fetches : BackendGetClusters(f)
  \/ \E f \in fetches : FetchClustersOk(f)
  \/ \E f \in fetches : FetchErr(f)
  \/ \E c \in calls : CallNetworkFail(c)
  \/ \E f \in fetches : FetchNetworkFail(f)
  \/ \E id \in ClusterIds : DeleteCluster(id)
  \/ \E c \in calls : BackendDeleteCluster(c)
  \/ \E c \in calls : DeleteClusterOk(c)
  \/ \E c \in calls : DeleteClusterTimer(c)
  \/ \E c \in calls : DeleteClusterErr(c)
  \/ \E i \in DOMAIN bClusters : BackendProvisionDone(i)
  \/ \E i \in DOMAIN bClusters : BackendProvisionFail(i)
  \/ \E i \in DOMAIN bClusters : BackendTeardownDone(i)
  \/ \E i \in DOMAIN bClusters : BackendTeardownFail(i)

Spec == Init /\ [][Next]_vars


\* ============================================== deployments and volumes
DepNames == {"etl", "bi"}

\* volumeRequirements of the catalog (data/applications.ts): airflow only
VolReqs(app) == IF app = "airflow" THEN {"airflow-logs"} ELSE {}

Ep(name, value) == [name |-> name, access_type |-> "cluster_ip_path", value |-> value]

\* endpoint configurations a user can leave the access step with, formatted
EndpointChoices ==
  { <<Ep("web-ui", "/a")>>,
    <<Ep("web-ui", "/a"), Ep("flower-ui", "/a")>> }

SetDeployments(cs, cid, F(_)) ==
  MapSeq(cs, LAMBDA c : IF c.id = cid THEN [c EXCEPT !.deployments = F(c.deployments)] ELSE c)

SetDeploymentStatus(cs, cid, did, st) ==
  SetDeployments(cs, cid, LAMBDA ds :
    MapSeq(ds, LAMBDA d : IF d.id = did THEN [d EXCEPT !.status = st] ELSE d))

SetVolumeStatus(vs, id, st) ==
  MapSeq(vs, LAMBDA v : IF v.id = id THEN [v EXCEPT !.status = st] ELSE v)

DeploymentIds(cid) ==
  UNION {{c.deployments[i].id : i \in DOMAIN c.deployments} : c \in {x \in Range(clusters) : x.id = cid}}

\* createDeployment, the volume loop: an existing volume picked by name is
\* marked in use; a nameless selection creates a volume when the
\* application has a requirement of that (empty) name
RECURSIVE BindVolumes(_, _, _, _, _)
BindVolumes(vs, app, vols, hasCluster, n) ==
  IF vols = <<>> THEN vs
  ELSE LET name == Head(vols)
           found == \E i \in DOMAIN vs : vs[i].name = name
           vs1 == IF name # ""
                    THEN IF found
                           THEN MapSeq(vs, LAMBDA v : IF v.name = name THEN [v EXCEPT !.inUse = TRUE] ELSE v)
                           ELSE vs
                    ELSE IF name \in VolReqs(app) /\ hasCluster
                           THEN Append(vs, [id |-> <<"vol-new", n>>, name |-> "new",
                                            status |-> CREATING, inUse |-> TRUE])
                           ELSE vs
       IN BindVolumes(vs1, app, Tail(vols), hasCluster, n)

\* createDeployment: the names pushed to deploymentVolumes
RECURSIVE DeploymentVolumes(_, _, _)
DeploymentVolumes(vs, app, vols) ==
  IF vols = <<>> THEN {}
  ELSE LET name == Head(vols)
           volumeName == IF name # ""
                           THEN IF \E i \in DOMAIN vs : vs[i].name = name THEN name ELSE ""
                           ELSE "new"
       IN (IF name \in VolReqs(app) THEN {volumeName} ELSE {})
            \cup DeploymentVolumes(vs, app, Tail(vols))

Validating == \E c \in calls : c.op = "validateEndpoints"

\* DeployAppModal.handleSubmit at the access step, up to the first
\* `await checkEndpointExistence` of validateEndpoints
HandleSubmit(cid, app, name, eps) ==
  /\ CanIssue
  /\ ~Validating
  /\ cid \in ClusterIds /\ ClusterById(cid).status = RUNNING
  /\ Len(eps) # 0
  /\ \A i \in DOMAIN eps : eps[i].value # ""
  /\ calls' = calls \cup {Call(nextId, "validateEndpoints", "sent", NoId, cid, "",
        [name |-> name, app |-> app,
         vols |-> IF VolReqs(app) = {} THEN <<>> ELSE <<"airflow-logs">>,
         eps |-> eps, idx |-> 1, cur |-> FALSE])}
  /\ nextId' = nextId + 1
  /\ ops' = ops + 1
  /\ UNCHANGED <<storeVars, fetches, backVars, ghostVars, workerVars, uiVars, wizVars, pageVars>>

BEndpointExists(cluster_id, e) ==
  \E i \in DOMAIN bDeployments :
     /\ bDeployments[i].cluster_id = cluster_id
     /\ \E j \in DOMAIN bDeployments[i].endpoints :
          /\ bDeployments[i].endpoints[j].access_type = e.access_type
          /\ bDeployments[i].endpoints[j].value = e.value

\* POST /clusters/{id}/deployments/check-endpoint-existence
BackendCheckEndpoint(c) ==
  /\ c \in calls /\ c.op = "validateEndpoints" /\ c.ph = "sent"
  /\ calls' = Replace(calls, c,
        [c EXCEPT !.ph = "ok",
                  !.resp = IF BEndpointExists(c.cid[2], c.payload.eps[c.payload.idx])
                             THEN "exists" ELSE "free"])
  /\ UNCHANGED <<storeVars, fetches, nextId, ops, backVars, ghostVars, workerVars, uiVars, wizVars, pageVars>>

\* the store's createDeployment up to `await api.createDeployment`
StoreCreateDeployment(c) ==
  LET hasCluster == c.cid \in ClusterIds
      newDeployment ==
        [id |-> TmpId(c.n), name |-> c.payload.name, app |-> c.payload.app,
         status |-> DEPLOYING,
         volumes |-> DeploymentVolumes(volumes, c.payload.app, c.payload.vols),
         accessEndpoints |-> c.payload.eps]
  IN /\ volumes' = BindVolumes(volumes, c.payload.app, c.payload.vols, hasCluster, c.n)
     /\ clusters' = SetDeployments(clusters, c.cid, LAMBDA ds : Append(ds, newDeployment))
     /\ calls' = Replace(calls, c, [c EXCEPT !.op = "createDeployment", !.ph = "sent",
                                             !.id = newDeployment.id, !.resp = "",
                                             !.payload.cur = hasCluster])

\* validateEndpoints after an answer: a conflict stops the submit, the next
\* endpoint is checked, or handleSubmit goes on to createDeployment
ValidateEndpointsOk(c) ==
  /\ c \in calls /\ c.op = "validateEndpoints" /\ c.ph = "ok"
  /\ IF c.resp = "exists"
       THEN calls' = calls \ {c} /\ UNCHANGED storeVars
       ELSE IF c.payload.idx < Len(c.payload.eps)
              THEN /\ calls' = Replace(calls, c,
                         [c EXCEPT !.ph = "sent", !.resp = "", !.payload.idx = @ + 1])
                   /\ UNCHANGED storeVars
              ELSE StoreCreateDeployment(c) /\ UNCHANGED domainActivities
  /\ UNCHANGED <<fetches, nextId, ops, backVars, ghostVars, workerVars, uiVars, wizVars, pageVars>>

\* validateEndpoints' catch: "Validation failed", nothing is submitted
ValidateEndpointsErr(c) ==
  /\ c \in calls /\ c.op = "validateEndpoints" /\ c.ph = "err"
  /\ calls' = calls \ {c}
  /\ UNCHANGED <<storeVars, fetches, nextId, ops, backVars, ghostVars, workerVars, uiVars, wizVars, pageVars>>

\* a cluster in the terminal failure state may be deleted but not mutated
BClusterFailed(cluster_id) ==
  \E i \in DOMAIN bClusters :
    bClusters[i].id = cluster_id /\ bClusters[i].status = FAILED

BDeploymentMutable(id) ==
  \E i \in DOMAIN bDeployments :
    /\ ApiId(bDeployments[i].id) = id
    /\ ~BClusterFailed(bDeployments[i].cluster_id)

\* admission of a create-deployment request: the cluster exists and is not
\* failed, the name is free in the cluster, every endpoint is free in the
\* cluster and in the request
BAdmit(cluster_id, p) ==
  /\ \E i \in DOMAIN bClusters : bClusters[i].id = cluster_id
  /\ ~BClusterFailed(cluster_id)
  /\ ~ \E i \in DOMAIN bDeployments :
         bDeployments[i].cluster_id = cluster_id /\ bDeployments[i].name = p.name
  /\ \A j \in DOMAIN p.eps : ~BEndpointExists(cluster_id, p.eps[j])
  /\ \A j \in DOMAIN p.eps : \A k \in DOMAIN p.eps :
        (j # k) => ~(p.eps[j].access_type = p.eps[k].access_type /\ p.eps[j].value = p.eps[k].value)

\* POST /clusters/{id}/deployments
BackendCreateDeployment(c) ==
  /\ c \in calls /\ c.op = "createDeployment" /\ c.ph = "sent"
  /\ IF c.cid[1] = "api" /\ BAdmit(c.cid[2], c.payload)
       THEN /\ bDeployments' = Append(bDeployments,
                 [id |-> bNextId, cluster_id |-> c.cid[2], name |-> c.payload.name,
                  app |-> c.payload.app, status |-> DEPLOYING, endpoints |-> c.payload.eps,
                  volumes |-> {c.payload.vols[i] : i \in DOMAIN c.payload.vols}
                                \cap {bVolumes[i].name : i \in DOMAIN bVolumes}])
            /\ bNextId' = bNextId + 1
            /\ calls' = Replace(calls, c, [c EXCEPT !.ph = "ok", !.resp = DEPLOYING])
       ELSE /\ calls' = Replace(calls, c, [c EXCEPT !.ph = "err", !.resp = "conflict"])
            /\ UNCHANGED <<bDeployments, bNextId>>
  /\ UNCHANGED <<storeVars, fetches, nextId, ops, bClusters, bVolumes, ghostVars, workerVars, uiVars, wizVars, pageVars>>

\* createDeployment after the await: completion is scheduled in 15 s
CreateDeploymentOk(c) ==
  /\ c \in calls /\ c.op = "createDeployment" /\ c.ph = "ok"
  /\ domainActivities' = IF c.payload.cur THEN <<"deploying">> \o domainActivities
                         ELSE domainActivities
  /\ calls' = Replace(calls, c, [c EXCEPT !.ph = "timer"])
  /\ UNCHANGED <<clusters, volumes, fetches, nextId, ops, backVars, ghostVars, workerVars, uiVars, wizVars, pageVars>>

\* the 15 s timer of createDeployment fires
CreateDeploymentTimer(c) ==
  /\ c \in calls /\ c.op = "createDeployment" /\ c.ph = "timer"
  /\ clusters' = SetDeploymentStatus(clusters, c.cid, c.id, RUNNING)
  /\ volumes' = MapSeq(volumes, LAMBDA v :
        IF v.status = CREATING THEN [v EXCEPT !.status = RUNNING] ELSE v)
  /\ domainActivities' = IF c.payload.cur THEN <<"deployed">> \o domainActivities
                         ELSE domainActivities
  /\ calls' = calls \ {c}
  /\ UNCHANGED <<fetches, nextId, ops, backVars, ghostVars, workerVars, uiVars, wizVars, pageVars>>

\* createDeployment's catch: a toast
CreateDeploymentErr(c) ==
  /\ c \in calls /\ c.op = "createDeployment" /\ c.ph = "err"
  /\ calls' = calls \ {c}
  /\ errored' = errored \cup {c.id}
  /\ UNCHANGED <<storeVars, fetches, nextId, ops, backVars, extFail, workerVars, uiVars, wizVars, pageVars>>


\* updateDeployment, up to `await api.updateDeployment`
UpdateDeployment(cid, did) ==
  /\ CanIssue
  /\ did \in DeploymentIds(cid)
  /\ calls' = calls \cup {Call(nextId, "updateDeployment", "sent", did, cid, "", NoPayload)}
  /\ nextId' = nextId + 1
  /\ ops' = ops + 1
  /\ UNCHANGED <<storeVars, fetches, backVars, ghostVars, workerVars, uiVars, wizVars, pageVars>>

\* POST /clusters/{id}/deployments/{did} : refused on an unknown row or a
\* failed cluster, else updating
BackendUpdateDeployment(c) ==
  /\ c \in calls /\ c.op = "updateDeployment" /\ c.ph = "sent"
  /\ IF BDeploymentMutable(c.id)
       THEN /\ bDeployments' = MapSeq(bDeployments, LAMBDA d :
                 IF ApiId(d.id) = c.id THEN [d EXCEPT !.status = UPDATING] ELSE d)
            /\ calls' = Replace(calls, c, [c EXCEPT !.ph = "ok", !.resp = UPDATING])
       ELSE /\ calls' = Replace(calls, c, [c EXCEPT !.ph = "err", !.resp = "not_found"])
            /\ UNCHANGED bDeployments
  /\ UNCHANGED <<storeVars, fetches, nextId, ops, bClusters, bVolumes, bNextId, ghostVars, workerVars, uiVars, wizVars, pageVars>>

\* updateDeployment after the await: completion is scheduled in 15 s
UpdateDeploymentOk(c) ==
  /\ c \in calls /\ c.op = "updateDeployment" /\ c.ph = "ok"
  /\ domainActivities' = <<"updating">> \o domainActivities
  /\ calls' = Replace(calls, c, [c EXCEPT !.ph = "timer"])
  /\ UNCHANGED <<clusters, volumes, fetches, nextId, ops, backVars, ghostVars, workerVars, uiVars, wizVars, pageVars>>

\* the 15 s timer of updateDeployment fires
UpdateDeploymentTimer(c) ==
  /\ c \in calls /\ c.op = "updateDeployment" /\ c.ph = "timer"
  /\ clusters' = SetDeploymentStatus(clusters, c.cid, c.id, RUNNING)
  /\ domainActivities' = <<"deployed">> \o domainActivities
  /\ calls' = calls \ {c}
  /\ UNCHANGED <<volumes, fetches, nextId, ops, backVars, ghostVars, workerVars, uiVars, wizVars, pageVars>>

\* updateDeployment's catch: a toast
UpdateDeploymentErr(c) ==
  /\ c \in calls /\ c.op = "updateDeployment" /\ c.ph = "err"
  /\ calls' = calls \ {c}
  /\ errored' = errored \cup {c.id}
  /\ UNCHANGED <<storeVars, fetches, nextId, ops, backVars, extFail, workerVars, uiVars, wizVars, pageVars>>

\* deleteDeployment, up to `await api.deleteDeployment`
DeleteDeployment(cid, did) ==
  /\ CanIssue
  /\ did \in DeploymentIds(cid)
  /\ clusters' = SetDeployments(clusters, cid, LAMBDA ds : Filter(ds, LAMBDA d : d.id # did))
  /\ calls' = calls \cup {Call(nextId, "deleteDeployment", "sent", did, cid, "", NoPayload)}
  /\ nextId' = nextId + 1
  /\ ops' = ops + 1
  /\ UNCHANGED <<volumes, domainActivities, fetches, backVars, ghostVars, workerVars, uiVars, wizVars, pageVars>>

\* DELETE /clusters/{id}/deployments/{did} : refused on an unknown row or a
\* failed cluster, else deleting
BackendDeleteDeployment(c) ==
  /\ c \in calls /\ c.op = "deleteDeployment" /\ c.ph = "sent"
  /\ IF BDeploymentMutable(c.id)
       THEN /\ bDeployments' = MapSeq(bDeployments, LAMBDA d :
                 IF ApiId(d.id) = c.id THEN [d EXCEPT !.status = DELETING] ELSE d)
            /\ calls' = Replace(calls, c, [c EXCEPT !.ph = "ok"])
       ELSE /\ calls' = Replace(calls, c, [c EXCEPT !.ph = "err", !.resp = "not_found"])
            /\ UNCHANGED bDeployments
  /\ UNCHANGED <<storeVars, fetches, nextId, ops, bClusters, bVolumes, bNextId, ghostVars, workerVars, uiVars, wizVars, pageVars>>

\* deleteDeployment after the await
DeleteDeploymentOk(c) ==
  /\ c \in calls /\ c.op = "deleteDeployment" /\ c.ph = "ok"
  /\ domainActivities' = <<"removed">> \o domainActivities
  /\ calls' = calls \ {c}
  /\ UNCHANGED <<clusters, volumes, fetches, nextId, ops, backVars, ghostVars, workerVars, uiVars, wizVars, pageVars>>

\* deleteDeployment's catch: get().fetchClusters(), then the code after the try
DeleteDeploymentErr(c) ==
  /\ c \in calls /\ c.op = "deleteDeployment" /\ c.ph = "err"
  /\ fetches' = fetches \cup {[n |-> c.n, kind |-> "clusters", ph |-> "sent", snap |-> <<>>]}
  /\ domainActivities' = <<"removed">> \o domainActivities
  /\ calls' = calls \ {c}
  /\ errored' = errored \cup {c.id}
  /\ UNCHANGED <<clusters, volumes, nextId, ops, backVars, extFail, workerVars, uiVars, wizVars, pageVars>>

\* ---------------------------------------- control plane, deployment rows
BackendInstallDone(i) ==
  /\ i \in DOMAIN bDeployments /\ bDeployments[i].status \in {DEPLOYING, UPDATING}
  /\ bDeployments' = [bDeployments EXCEPT ![i].status = RUNNING]
  /\ UNCHANGED <<storeVars, asyncVars, bClusters, bVolumes, bNextId, ghostVars, workerVars, uiVars, wizVars, pageVars>>

BackendInstallFail(i) ==
  /\ i \in DOMAIN bDeployments /\ bDeployments[i].status \in {DEPLOYING, UPDATING}
  /\ bDeployments' = [bDeployments EXCEPT ![i].status = FAILED]
  /\ extFail' = TRUE
  /\ UNCHANGED <<storeVars, asyncVars, bClusters, bVolumes, bNextId, errored, workerVars, uiVars, wizVars, pageVars>>

\* the uninstall ends: the row is removed
BackendUninstallDone(i) ==
  /\ i \in DOMAIN bDeployments /\ bDeployments[i].status = DELETING
  /\ bDeployments' = Filter(bDeployments, LAMBDA d : d.id # bDeployments[i].id)
  /\ UNCHANGED <<storeVars, asyncVars, bClusters, bVolumes, bNextId, ghostVars, workerVars, uiVars, wizVars, pageVars>>

\* ================================================================ volumes
\* createVolume, up to `await api.createVolume(payload)`
CreateVolume(name) ==
  /\ CanIssue
  /\ volumes' = Append(volumes, [id |-> <<"temp-vol", nextId>>, name |-> name,
                                 status |-> CREATING, inUse |-> FALSE])
  /\ calls' = calls \cup {Call(nextId, "createVolume", "sent", <<"temp-vol", nextId>>, NoId, "",
                               [NoPayload EXCEPT !.name = name])}
  /\ nextId' = nextId + 1
  /\ ops' = ops + 1
  /\ UNCHANGED <<clusters, domainActivities, fetches, backVars, ghostVars, workerVars, uiVars, wizVars, pageVars>>

\* POST /volumes/
BackendCreateVolume(c) ==
  /\ c \in calls /\ c.op = "createVolume" /\ c.ph = "sent"
  /\ bVolumes' = Append(bVolumes, [id |-> bNextId, name |-> c.payload.name, status |-> CREATING])
  /\ bNextId' = bNextId + 1
  /\ calls' = Replace(calls, c, [c EXCEPT !.ph = "ok", !.resp = CREATING])
  /\ UNCHANGED <<storeVars, fetches, nextId, ops, bClusters, bDeployments, ghostVars, workerVars, uiVars, wizVars, pageVars>>

\* createVolume after the await: the response is applied in 3 s
CreateVolumeOk(c) ==
  /\ c \in calls /\ c.op = "createVolume" /\ c.ph = "ok"
  /\ calls' = Replace(calls, c, [c EXCEPT !.ph = "timer"])
  /\ UNCHANGED <<storeVars, fetches, nextId, ops, backVars, ghostVars, workerVars, uiVars, wizVars, pageVars>>

\* the 3 s timer of createVolume fires
CreateVolumeTimer(c) ==
  /\ c \in calls /\ c.op = "createVolume" /\ c.ph = "timer"
  /\ volumes' = SetVolumeStatus(volumes, c.id, c.resp)
  /\ calls' = calls \ {c}
  /\ UNCHANGED <<clusters, domainActivities, fetches, nextId, ops, backVars, ghostVars, workerVars, uiVars, wizVars, pageVars>>

\* createVolume's catch: the temporary volume is dropped
CreateVolumeErr(c) ==
  /\ c \in calls /\ c.op = "createVolume" /\ c.ph = "err"
  /\ volumes' = Filter(volumes, LAMBDA v : v.id # c.id)
  /\ calls' = calls \ {c}
  /\ UNCHANGED <<clusters, domainActivities, fetches, nextId, ops, backVars, ghostVars, workerVars, uiVars, wizVars, pageVars>>

\* Volumes page: the delete button is enabled and handleDeleteClick opens
\* the confirmation
handleDeleteClick(v) == ~v.inUse /\ v.status # DELETING

\* handleConfirmDelete -> deleteVolume, up to `await api.deleteVolume`
DeleteVolume(i) ==
  /\ CanIssue
  /\ i \in DOMAIN volumes
  /\ handleDeleteClick(volumes[i])
  /\ volumes' = SetVolumeStatus(volumes, volumes[i].id, DELETING)
  /\ calls' = calls \cup {[Call(nextId, "deleteVolume", "sent", volumes[i].id, NoId, "",
                                NoPayload) EXCEPT !.prev = volumes[i].status]}
  /\ nextId' = nextId + 1
  /\ ops' = ops + 1
  /\ UNCHANGED <<clusters, domainActivities, fetches, backVars, ghostVars, workerVars, uiVars, wizVars, pageVars>>

\* whether DELETE /volumes/{id} is accepted: the row exists and is not in use
BDeleteVolumeAccepts(id) ==
  \E i \in DOMAIN bVolumes : ApiId(bVolumes[i].id) = id /\ ~BInUse(bVolumes[i].name)

\* DELETE /volumes/{id} : 404 unknown, 409 in use, else 202 and deleting
BackendDeleteVolume(c) ==
  /\ c \in calls /\ c.op = "deleteVolume" /\ c.ph = "sent"
  /\ IF BDeleteVolumeAccepts(c.id)
       THEN /\ bVolumes' = MapSeq(bVolumes, LAMBDA r :
                 IF ApiId(r.id) = c.id THEN [r EXCEPT !.status = DELETING] ELSE r)
            /\ calls' = Replace(calls, c, [c EXCEPT !.ph = "ok"])
       ELSE /\ calls' = Replace(calls, c, [c EXCEPT !.ph = "err",
                 !.resp = IF \E i \in DOMAIN bVolumes : ApiId(bVolumes[i].id) = c.id
                            THEN "conflict" ELSE "not_found"])
            /\ UNCHANGED bVolumes
  /\ UNCHANGED <<storeVars, fetches, nextId, ops, bClusters, bDeployments, bNextId, ghostVars, workerVars, uiVars, wizVars, pageVars>>

\* deleteVolume after the await: removal in 3 s
DeleteVolumeOk(c) ==
  /\ c \in calls /\ c.op = "deleteVolume" /\ c.ph = "ok"
  /\ calls' = Replace(calls, c, [c EXCEPT !.ph = "timer"])
  /\ UNCHANGED <<storeVars, fetches, nextId, ops, backVars, ghostVars, workerVars, uiVars, wizVars, pageVars>>

\* the 3 s timer of deleteVolume fires
DeleteVolumeTimer(c) ==
  /\ c \in calls /\ c.op = "deleteVolume" /\ c.ph = "timer"
  /\ volumes' = Filter(volumes, LAMBDA v : v.id # c.id)
  /\ calls' = calls \ {c}
  /\ UNCHANGED <<clusters, domainActivities, fetches, nextId, ops, backVars, ghostVars, workerVars, uiVars, wizVars, pageVars>>

\* deleteVolume's catch: the volume is put to running
DeleteVolumeErr(c) ==
  /\ c \in calls /\ c.op = "deleteVolume" /\ c.ph = "err"
  /\ volumes' = SetVolumeStatus(volumes, c.id, RUNNING)
  /\ calls' = calls \ {c}
  /\ errored' = errored \cup {c.id}
  /\ UNCHANGED <<clusters, domainActivities, fetches, nextId, ops, backVars, extFail, workerVars, uiVars, wizVars, pageVars>>

\* GET /volumes/
BackendGetVolumes(f) ==
  /\ f \in fetches /\ f.kind = "volumes" /\ f.ph = "sent"
  /\ fetches' = Replace(fetches, f, [f EXCEPT !.ph = "ok", !.snap = ApiVolumes])
  /\ UNCHANGED <<storeVars, calls, nextId, ops, backVars, ghostVars, workerVars, uiVars, wizVars, pageVars>>

\* fetchVolumes after the await: set({ volumes: uiVolumes })
FetchVolumesOk(f) ==
  /\ f \in fetches /\ f.kind = "volumes" /\ f.ph = "ok"
  /\ volumes' = MapSeq(f.snap, mapApiVolumeToUIVolume)
  /\ fetches' = fetches \ {f}
  /\ UNCHANGED <<clusters, domainActivities, calls, nextId, ops, backVars, ghostVars, workerVars, uiVars, wizVars, pageVars>>

\* the page is loaded again: the persisted store is kept, suspended
\* operations and timers are gone, and the start-up timer fetches both lists
Reload ==
  /\ ops < MaxOps
  /\ calls' = {}
  /\ fetches' = {[n |-> nextId, kind |-> "clusters", ph |-> "sent", snap |-> <<>>],
                 [n |-> nextId, kind |-> "volumes", ph |-> "sent", snap |-> <<>>]}
  /\ nextId' = nextId + 1
  /\ ops' = ops + 1
  /\ UNCHANGED <<storeVars, backVars, ghostVars, workerVars, uiVars, wizVars, pageVars>>

\* ------------------------------------------- control plane, volume rows
BackendVolumeDone(i) ==
  /\ i \in DOMAIN bVolumes /\ bVolumes[i].status = CREATING
  /\ bVolumes' = [bVolumes EXCEPT ![i].status = RUNNING]
  /\ UNCHANGED <<storeVars, asyncVars, bClusters, bDeployments, bNextId, ghostVars, workerVars, uiVars, wizVars, pageVars>>

BackendVolumeDeleted(i) ==
  /\ i \in DOMAIN bVolumes /\ bVolumes[i].status = DELETING
  /\ bVolumes' = Filter(bVolumes, LAMBDA r : r.id # bVolumes[i].id)
  /\ UNCHANGED <<storeVars, asyncVars, bClusters, bDeployments, bNextId, ghostVars, workerVars, uiVars, wizVars, pageVars>>

\* one running cluster and one volume in status vst, known to the store from
\* an earlier fetch
InitWith(vst) ==
  /\ bClusters = <<[id |-> 1, name |-> "prod", status |-> RUNNING,
                    access_ip |-> "ip", error_message |-> ""]>>
  /\ bDeployments = <<>>
  /\ bVolumes = <<[id |-> 2, name |-> "airflow-logs", status |-> vst]>>
  /\ bNextId = 3
  /\ clusters = MapSeq(ApiClusters, mapApiClusterToUICluster)
  /\ volumes = MapSeq(ApiVolumes, mapApiVolumeToUIVolume)
  /\ domainActivities = <<>>
  /\ calls = {} /\ fetches = {} /\ nextId = 1 /\ ops = 0
  /\ errored = {} /\ extFail = FALSE
  /\ WorkerInit
  /\ UiInit
  /\ WizInit
  /\ PageInit

\* the volume is ready
InitDep == InitWith(RUNNING)

\* the volume is ready, or still being created
InitVol == \E vst \in {RUNNING, CREATING} : InitWith(vst)

\* deployments of one cluster: the wizard's submit, update, delete, fetch
NextDep ==
  \/ \E cid \in ClusterIds : \E name \in DepNames :
       \E eps \in EndpointChoices : HandleSubmit(cid, "airflow", name, eps)
  \/ \E c \in calls : BackendCheckEndpoint(c)
  \/ \E c \in calls : ValidateEndpointsOk(c)
  \/ \E c \in calls : ValidateEndpointsErr(c)
  \/ \E c \in calls : BackendCreateDeployment(c)
  \/ \E c \in calls : CreateDeploymentOk(c)
  \/ \E c \in calls : CreateDeploymentTimer(c)
  \/ \E c \in calls : CreateDeploymentErr(c)
  \/ \E cid \in ClusterIds : \E did \in DeploymentIds(cid) : UpdateDeployment(cid, did)
  \/ \E c \in calls : BackendUpdateDeployment(c)
  \/ \E c \in calls : UpdateDeploymentOk(c)
  \/ \E c \in calls : UpdateDeploymentTimer(c)
  \/ \E c \in calls : UpdateDeploymentErr(c)
  \/ \E cid \in ClusterIds : \E did \in DeploymentIds(cid) : DeleteDeployment(cid, did)
  \/ \E c \in calls : BackendDeleteDeployment(c)
  \/ \E c \in calls : DeleteDeploymentOk(c)
  \/ \E c \in calls : DeleteDeploymentErr(c)
  \/ \E i \in DOMAIN bDeployments : BackendInstallDone(i)
  \/ \E i \in DOMAIN bDeployments : BackendInstallFail(i)
  \/ \E i \in DOMAIN bDeployments : BackendUninstallDone(i)
  \/ FetchClusters
  \/ \E f \in fetches : BackendGetClusters(f)
  \/ \E f \in fetches : FetchClustersOk(f)
  \/ \E f \in fetches : FetchErr(f)
  \/ \E c \in calls : CallNetworkFail(c)
  \/ \E f \in fetches : FetchNetworkFail(f)

SpecDep == InitDep /\ [][NextDep]_vars
\* a cluster that failed after an application was deployed on it, known to
\* the store from an earlier fetch
InitFailed ==
  /\ bClusters = <<[id |-> 1, name |-> "prod", status |-> FAILED,
                    access_ip |-> "ip", error_message |-> "provider_error"]>>
  /\ bDeployments = <<[id |-> 2, cluster_id |-> 1, name |-> "etl",
                       app |-> "airflow", status |-> RUNNING,
                       endpoints |-> <<Ep("web-ui", "/a")>>, volumes |-> {}]>>
  /\ bVolumes = <<>>
  /\ bNextId = 3
  /\ clusters = MapSeq(ApiClusters, mapApiClusterToUICluster)
  /\ volumes = <<>>
  /\ domainActivities = <<>>
  /\ calls = {} /\ fetches = {} /\ nextId = 1 /\ ops = 0
  /\ errored = {} /\ extFail = FALSE
  /\ WorkerInit
  /\ UiInit
  /\ WizInit
  /\ PageInit

\* what the cluster page offers on a failed cluster: update and remove of a
\* deployment, delete of the cluster, and the fetch on mount
NextFailed ==
  \/ \E cid \in ClusterIds : \E did \in DeploymentIds(cid) : UpdateDeployment(cid, did)
  \/ \E c \in calls : BackendUpdateDeployment(c)
  \/ \E c \in calls : UpdateDeploymentOk(c)
  \/ \E c \in calls : UpdateDeploymentTimer(c)
  \/ \E c \in calls : UpdateDeploymentErr(c)
  \/ \E cid \in ClusterIds : \E did \in DeploymentIds(cid) : DeleteDeployment(cid, did)
  \/ \E c \in calls : BackendDeleteDeployment(c)
  \/ \E c \in calls : DeleteDeploymentOk(c)
  \/ \E c \in calls : DeleteDeploymentErr(c)
  \/ \E i \in DOMAIN bDeployments : BackendInstallDone(i)
  \/ \E i \in DOMAIN bDeployments : BackendUninstallDone(i)
  \/ \E id \in ClusterIds : DeleteCluster(id)
  \/ \E c \in calls : BackendDeleteCluster(c)
  \/ \E c \in calls : DeleteClusterOk(c)
  \/ \E c \in calls : DeleteClusterTimer(c)
  \/ \E c \in calls : DeleteClusterErr(c)
  \/ \E i \in DOMAIN bClusters : BackendTeardownDone(i)
  \/ \E i \in DOMAIN bClusters : BackendTeardownFail(i)
  \/ FetchClusters
  \/ \E f \in fetches : BackendGetClusters(f)
  \/ \E f \in fetches : FetchClustersOk(f)
  \/ \E f \in fetches : FetchErr(f)
  \/ \E c \in calls : CallNetworkFail(c)
  \/ \E f \in fetches : FetchNetworkFail(f)

SpecFailed == InitFailed /\ [][NextFailed]_vars

\* volumes and the deployments that bind them
NextVol ==
  \/ \E cid \in ClusterIds : HandleSubmit(cid, "airflow", "etl", <<Ep("web-ui", "/a")>>)
  \/ \E c \in calls : BackendCheckEndpoint(c)
  \/ \E c \in calls : ValidateEndpointsOk(c)
  \/ \E c \in calls : ValidateEndpointsErr(c)
  \/ \E c \in calls : BackendCreateDeployment(c)
  \/ \E c \in calls : CreateDeploymentOk(c)
  \/ \E c \in calls : CreateDeploymentTimer(c)
  \/ \E c \in calls : CreateDeploymentErr(c)
  \/ \E cid \in ClusterIds : \E did \in DeploymentIds(cid) : DeleteDeployment(cid, did)
  \/ \E c \in calls : BackendDeleteDeployment(c)
  \/ \E c \in calls : DeleteDeploymentOk(c)
  \/ \E c \in calls : DeleteDeploymentErr(c)
  \/ \E i \in DOMAIN bDeployments : BackendInstallDone(i)
  \/ \E i \in DOMAIN bDeployments : BackendUninstallDone(i)
  \/ \E name \in VolumeNames : CreateVolume(name)
  \/ \E c \in calls : BackendCreateVolume(c)
  \/ \E c \in calls : CreateVolumeOk(c)
  \/ \E c \in calls : CreateVolumeTimer(c)
  \/ \E c \in calls : CreateVolumeErr(c)
  \/ \E i \in DOMAIN volumes : DeleteVolume(i)
  \/ \E c \in calls : BackendDeleteVolume(c)
  \/ \E c \in calls : DeleteVolumeOk(c)
  \/ \E c \in calls : DeleteVolumeTimer(c)
  \/ \E c \in calls : DeleteVolumeErr(c)
  \/ \E f \in fetches : BackendGetClusters(f)
  \/ \E f \in fetches : FetchClustersOk(f)
  \/ \E f \in fetches : BackendGetVolumes(f)
  \/ \E f \in fetches : FetchVolumesOk(f)
  \/ \E f \in fetches : FetchErr(f)
  \/ \E c \in calls : CallNetworkFail(c)
  \/ \E f \in fetches : FetchNetworkFail(f)
  \/ Reload
  \/ \E i \in DOMAIN bVolumes : BackendVolumeDone(i)
  \/ \E i \in DOMAIN bVolumes : BackendVolumeDeleted(i)

SpecVol == InitVol /\ [][NextVol]_vars

(***************************************************************************)
(* The orchestration engine: one worker per cluster, fed by a bounded      *)
(* queue.  A command is admitted by the control plane (Submit), taken by   *)
(* the cluster's worker when the worker is idle (WorkerTake), and executed *)
(* step by step.  A step in flight is a call to the provider, to the node  *)
(* or to the Kubernetes API; between two steps, and inside such a call,    *)
(* the create procedure observes a pending delete.                         *)
(***************************************************************************)
MaxCmds == 4

QueueCapacity == 8

\* creating: steps (1)..(8) do work, step (9) is the transition to running
LastCreateStep == 9

\* the steps of the create procedure that create a labelled provider
\* resource: (1) key and firewall, (2) control-plane server, (5) pool servers
ProviderSteps == {1, 2, 5}

CmdKinds == {"create", "delete", "configure", "deployment"}

\* provider calls are retried on 429/5xx: at most 6 attempts, the waits
\* start at 1 s, double, and are capped at 30 s
MaxAttempts == 6

InitialBackoff == 1

BackoffFactor == 2

BackoffCap == 30

Min(a, b) == IF a < b THEN a ELSE b

\* the wait that follows a failed attempt, given the wait before that attempt
\* (0 before the first attempt)
Backoff(prev) ==
  IF prev = 0 THEN InitialBackoff ELSE Min(BackoffFactor * prev, BackoffCap)

LastStep(kind) == IF kind = "create" THEN LastCreateStep - 1 ELSE 1

Cmd(kind, n, during) == [kind |-> kind, n |-> n, during |-> during]

Op(c, cmd) ==
  [c |-> c, kind |-> cmd.kind, n |-> cmd.n, during |-> cmd.during,
   step |-> 0, inStep |-> FALSE, attempt |-> 0, wait |-> 0,
   disc |-> FALSE, targets |-> {}]

OpsOf(c) == {op \in wrun : op.c = c}

QueuedKinds(c) == {wqueue[c][i].kind : i \in DOMAIN wqueue[c]}

\* a create of cluster c is queued or being executed
CreateInFlight(c) ==
  "create" \in QueuedKinds(c) \/ \E op \in OpsOf(c) : op.kind = "create"

DeleteInFlight(c) ==
  "delete" \in QueuedKinds(c) \/ \E op \in OpsOf(c) : op.kind = "delete"

\* a delete is pending behind the running create
CancelRequested(c) == "delete" \in QueuedKinds(c)

\* which commands the control plane admits in which status
Admits(c, kind) ==
  CASE kind = "create" -> wstatus[c] = "none"
    [] kind = "delete" ->
         wstatus[c] \in {"creating", "running", "failed"} /\ ~DeleteInFlight(c)
    [] OTHER -> wstatus[c] = "running" /\ ~DeleteInFlight(c)

\* the queue of cluster c has no room for a further command
QueueFull_Never(c) == FALSE
QueueFull(c) == Len(wqueue[c]) >= QueueCapacity

\* a command for cluster c arrives; a full queue answers 503
Submit(c, kind) ==
  /\ wcount < MaxCmds
  /\ Admits(c, kind)
  /\ wcount' = wcount + 1
  /\ IF ~QueueFull(c)
       THEN /\ wqueue' = [wqueue EXCEPT
                  ![c] = Append(@, Cmd(kind, wcount + 1, CreateInFlight(c)))]
            /\ wstatus' = IF kind = "create"
                            THEN [wstatus EXCEPT ![c] = "creating"]
                            ELSE wstatus
            /\ UNCHANGED wrejected
       ELSE /\ wrejected' = wrejected \cup {wcount + 1}
            /\ UNCHANGED <<wqueue, wstatus>>
  /\ UNCHANGED <<wrun, wreason, provider, recorded, wleaked>>
  /\ UNCHANGED <<storeVars, asyncVars, backVars, ghostVars, uiVars, wizVars, pageVars>>

\* the worker of cluster c executes nothing at the moment
WorkerIdle_Always(c) == TRUE
WorkerIdle(c) == OpsOf(c) = {}

\* within a worker execution is sequential: the next command is taken when
\* the previous one has ended
WorkerTake(c) ==
  /\ WorkerIdle(c)
  /\ wqueue[c] # <<>>
  /\ LET cmd == Head(wqueue[c]) IN
       /\ wqueue' = [wqueue EXCEPT ![c] = Tail(@)]
       /\ IF cmd.kind = "delete"
            THEN /\ wrun' = wrun \cup {Op(c, cmd)}
                 /\ wstatus' = [wstatus EXCEPT ![c] = "deleting"]
            ELSE IF cmd.kind = "create" \/ wstatus[c] = "running"
              THEN /\ wrun' = wrun \cup {Op(c, cmd)}
                   /\ UNCHANGED wstatus
              ELSE UNCHANGED <<wrun, wstatus>>
  /\ UNCHANGED <<wreason, provider, recorded, wcount, wrejected, wleaked>>
  /\ UNCHANGED <<storeVars, asyncVars, backVars, ghostVars, uiVars, wizVars, pageVars>>

\* a step of a create, configure or deployment procedure starts, at a
\* cancellation point: a create with a delete pending does not start it
StepBegin(op) ==
  /\ op \in wrun
  /\ op.kind # "delete"
  /\ ~op.inStep
  /\ op.step < LastStep(op.kind)
  /\ ~(op.kind = "create" /\ CancelRequested(op.c))
  /\ wrun' = (wrun \ {op})
               \cup {[op EXCEPT !.inStep = TRUE, !.attempt = 1, !.wait = 0]}
  /\ UNCHANGED <<wqueue, wstatus, wreason, provider, recorded, wcount, wrejected, wleaked>>
  /\ UNCHANGED <<storeVars, asyncVars, backVars, ghostVars, uiVars, wizVars, pageVars>>

\* the resource the step of a create makes at the provider, labelled with
\* the cluster id
StepResources(op) ==
  IF op.kind = "create" /\ (op.step + 1) \in ProviderSteps
    THEN {<<op.c, op.step + 1>>}
    ELSE {}

\* the call of the step in flight goes to the provider
ProviderCall(op) ==
  op.kind = "create" /\ op.inStep /\ (op.step + 1) \in ProviderSteps

\* attempts are left for the call of the step in flight
MayRetry_Always(op) == TRUE
MayRetry(op) == op.attempt < MaxAttempts

\* the provider answers 429 or 5xx: the worker waits and calls again, inside
\* the same step
CallRetry(op) ==
  /\ op \in wrun
  /\ ProviderCall(op)
  /\ MayRetry(op)
  /\ wrun' = (wrun \ {op})
               \cup {[op EXCEPT !.attempt = op.attempt + 1,
                                 !.wait = Backoff(op.wait)]}
  /\ UNCHANGED <<wqueue, wstatus, wreason, provider, recorded, wcount,
                 wrejected, wleaked>>
  /\ UNCHANGED <<storeVars, asyncVars, backVars, ghostVars, uiVars, wizVars, pageVars>>

\* the step succeeds: what it created is recorded
StepEnd(op) ==
  /\ op \in wrun
  /\ op.inStep
  /\ wrun' = (wrun \ {op})
               \cup {[op EXCEPT !.inStep = FALSE, !.step = op.step + 1,
                                 !.attempt = 0, !.wait = 0]}
  /\ provider' = provider \cup StepResources(op)
  /\ recorded' = recorded \cup StepResources(op)
  /\ UNCHANGED <<wqueue, wstatus, wreason, wcount, wrejected, wleaked>>
  /\ UNCHANGED <<storeVars, asyncVars, backVars, ghostVars, uiVars, wizVars, pageVars>>

\* a step of a create fails: the cluster is failed; the provider may have
\* made the resource although the call did not return its id
StepFail(op, leak) ==
  /\ op \in wrun
  /\ op.kind = "create"
  /\ op.inStep
  /\ wrun' = wrun \ {op}
  /\ wstatus' = [wstatus EXCEPT ![op.c] = "failed"]
  /\ wreason' = [wreason EXCEPT ![op.c] = "step-error"]
  /\ provider' = IF leak THEN provider \cup StepResources(op) ELSE provider
  /\ wleaked' = IF leak THEN wleaked \cup StepResources(op) ELSE wleaked
  /\ UNCHANGED <<wqueue, recorded, wcount, wrejected>>
  /\ UNCHANGED <<storeVars, asyncVars, backVars, ghostVars, uiVars, wizVars, pageVars>>

\* the create observes the pending delete, between two steps or inside the
\* call of the step in flight, and ends as failed with reason cancelled
CreateCancel(op, leak) ==
  /\ op \in wrun
  /\ op.kind = "create"
  /\ CancelRequested(op.c)
  /\ wrun' = wrun \ {op}
  /\ wstatus' = [wstatus EXCEPT ![op.c] = "failed"]
  /\ wreason' = [wreason EXCEPT ![op.c] = "cancelled"]
  /\ provider' = IF op.inStep /\ leak
                   THEN provider \cup StepResources(op)
                   ELSE provider
  /\ wleaked' = IF op.inStep /\ leak
                  THEN wleaked \cup StepResources(op)
                  ELSE wleaked
  /\ UNCHANGED <<wqueue, recorded, wcount, wrejected>>
  /\ UNCHANGED <<storeVars, asyncVars, backVars, ghostVars, uiVars, wizVars, pageVars>>

\* the last step is done: step (9) of a create makes the cluster running
OpFinish(op) ==
  /\ op \in wrun
  /\ op.kind # "delete"
  /\ ~op.inStep
  /\ op.step = LastStep(op.kind)
  /\ ~(op.kind = "create" /\ CancelRequested(op.c))
  /\ wrun' = wrun \ {op}
  /\ wstatus' = IF op.kind = "create"
                  THEN [wstatus EXCEPT ![op.c] = "running"]
                  ELSE wstatus
  /\ UNCHANGED <<wqueue, wreason, provider, recorded, wcount, wrejected, wleaked>>
  /\ UNCHANGED <<storeVars, asyncVars, backVars, ghostVars, uiVars, wizVars, pageVars>>

Labelled(c) == {r \in provider : r[1] = c}

\* teardown walks the provider's resources by the label of the cluster
TeardownTargets_ByRecord(c) == {r \in recorded : r[1] = c}
TeardownTargets(c) == Labelled(c)

TeardownDiscover(op) ==
  /\ op \in wrun
  /\ op.kind = "delete"
  /\ ~op.disc
  /\ wrun' = (wrun \ {op})
               \cup {[op EXCEPT !.disc = TRUE, !.targets = TeardownTargets(op.c)]}
  /\ UNCHANGED <<wqueue, wstatus, wreason, provider, recorded, wcount, wrejected, wleaked>>
  /\ UNCHANGED <<storeVars, asyncVars, backVars, ghostVars, uiVars, wizVars, pageVars>>

\* the resource created last among a set of resources
LastCreated(rs) == CHOOSE r \in rs : \A q \in rs : q[2] <= r[2]

\* the provider's resources once r is terminated
Terminate_Skip(rs, r) == rs
Terminate(rs, r) == rs \ {r}

\* resources are removed in reverse creation order
TeardownDelete(op) ==
  /\ op \in wrun
  /\ op.kind = "delete"
  /\ op.disc
  /\ op.targets # {}
  /\ LET r == LastCreated(op.targets) IN
       /\ provider' = Terminate(provider, r)
       /\ recorded' = recorded \ {r}
       /\ wrun' = (wrun \ {op}) \cup {[op EXCEPT !.targets = @ \ {r}]}
  /\ UNCHANGED <<wqueue, wstatus, wreason, wcount, wrejected, wleaked>>
  /\ UNCHANGED <<storeVars, asyncVars, backVars, ghostVars, uiVars, wizVars, pageVars>>

\* everything discovered is gone: the row is removed
TeardownDone(op) ==
  /\ op \in wrun
  /\ op.kind = "delete"
  /\ op.disc
  /\ op.targets = {}
  /\ wrun' = wrun \ {op}
  /\ wstatus' = [wstatus EXCEPT ![op.c] = "gone"]
  /\ recorded' = {r \in recorded : r[1] # op.c}
  /\ UNCHANGED <<wqueue, wreason, provider, wcount, wrejected, wleaked>>
  /\ UNCHANGED <<storeVars, asyncVars, backVars, ghostVars, uiVars, wizVars, pageVars>>

\* a teardown step errors irrecoverably
TeardownFail(op) ==
  /\ op \in wrun
  /\ op.kind = "delete"
  /\ op.disc
  /\ op.targets # {}
  /\ wrun' = wrun \ {op}
  /\ wstatus' = [wstatus EXCEPT ![op.c] = "failed"]
  /\ wreason' = [wreason EXCEPT ![op.c] = "step-error"]
  /\ UNCHANGED <<wqueue, provider, recorded, wcount, wrejected, wleaked>>
  /\ UNCHANGED <<storeVars, asyncVars, backVars, ghostVars, uiVars, wizVars, pageVars>>

NextWorker ==
  \/ \E c \in WClusters, kind \in CmdKinds : Submit(c, kind)
  \/ \E c \in WClusters : WorkerTake(c)
  \/ \E op \in wrun : StepBegin(op)
  \/ \E op \in wrun : CallRetry(op)
  \/ \E op \in wrun : StepEnd(op)
  \/ \E op \in wrun, leak \in BOOLEAN : StepFail(op, leak)
  \/ \E op \in wrun, leak \in BOOLEAN : CreateCancel(op, leak)
  \/ \E op \in wrun : OpFinish(op)
  \/ \E op \in wrun : TeardownDiscover(op)
  \/ \E op \in wrun : TeardownDelete(op)
  \/ \E op \in wrun : TeardownDone(op)
  \/ \E op \in wrun : TeardownFail(op)

SpecWorker == Init /\ [][NextWorker]_vars

\* cluster 1 is running and busy: its worker executes a deployment command
\* and all but two places of its queue are taken by commands accepted earlier
InitQueue ==
  /\ StoreInit
  /\ wqueue = [c \in WClusters |->
        IF c = 1
          THEN [i \in 1 .. (QueueCapacity - 2) |->
                  Cmd("deployment", i - QueueCapacity, FALSE)]
          ELSE <<>>]
  /\ wrun = {[Op(1, Cmd("deployment", 0 - QueueCapacity, FALSE))
               EXCEPT !.inStep = TRUE]}
  /\ wstatus = [c \in WClusters |-> IF c = 1 THEN "running" ELSE "none"]
  /\ wreason = [c \in WClusters |-> ""]
  /\ provider = {<<1, k>> : k \in ProviderSteps}
  /\ recorded = {<<1, k>> : k \in ProviderSteps}
  /\ wcount = 0
  /\ wrejected = {}
  /\ wleaked = {}
  /\ UiInit
  /\ WizInit
  /\ PageInit

SpecQueue == InitQueue /\ [][NextWorker]_vars

(***************************************************************************)
(* CreateClusterModal: the node configuration step, and the pools of the   *)
(* request that createCluster builds from it.  A pool's role is given by   *)
(* its position: the first pool of a request or of a response is the       *)
(* control plane.                                                          *)
(***************************************************************************)
MaxPools == 2

\* what a user types into the number inputs (parseInt(value) || default)
CountInputs == {0, 20, 21}
MinInputs == {-1, 3, 11}
MaxInputs == {0, 5, 11}

Max(a, b) == IF a > b THEN a ELSE b

\* String(n) for 0 <= n < 100, as its decimal digits
String(n) == IF n < 10 THEN <<n>> ELSE <<n \div 10, n % 10>>

\* parseInt of a string of decimal digits
RECURSIVE parseInt(_)
parseInt(str) ==
  IF str = <<>> THEN 0
  ELSE 10 * parseInt(SubSeq(str, 1, Len(str) - 1)) + str[Len(str)]

Autoscaling(enabled, minNodes, maxNodes) ==
  [enabled |-> enabled, minNodes |-> minNodes, maxNodes |-> maxNodes]

\* the pool handleAddNodePool and addDefaultNodePool make
NewNodePool == [count |-> 1, autoscaling |-> Autoscaling(FALSE, 0, 1)]

\* the control plane the provider effect sets
ControlPlaneDefault_Two == [count |-> 2]
ControlPlaneDefault == [count |-> 1]

\* a provider is selected: the effect sets the control plane and, at the
\* initial setup, the default pool
handleProviderSelect ==
  /\ controlPlane = Null
  /\ apiPayload = <<>>
  /\ controlPlane' = ControlPlaneDefault
  /\ nodePools' = IF nodePools = <<>> THEN <<NewNodePool>> ELSE nodePools
  /\ UNCHANGED <<apiPayload, readBack>>
  /\ UNCHANGED <<storeVars, asyncVars, backVars, ghostVars, workerVars, wizVars, pageVars>>

\* the form can be edited: a provider is selected, nothing submitted yet
Editing == controlPlane # Null /\ apiPayload = <<>>

handleAddNodePool ==
  /\ Editing
  /\ Len(nodePools) < MaxPools
  /\ nodePools' = Append(nodePools, NewNodePool)
  /\ UNCHANGED <<controlPlane, apiPayload, readBack>>
  /\ UNCHANGED <<storeVars, asyncVars, backVars, ghostVars, workerVars, wizVars, pageVars>>

handleRemoveNodePool(i) ==
  /\ Editing
  /\ i \in DOMAIN nodePools
  /\ nodePools' = [j \in 1 .. (Len(nodePools) - 1) |->
                     IF j < i THEN nodePools[j] ELSE nodePools[j + 1]]
  /\ UNCHANGED <<controlPlane, apiPayload, readBack>>
  /\ UNCHANGED <<storeVars, asyncVars, backVars, ghostVars, workerVars, wizVars, pageVars>>

handleNodeCountChange(i, count) ==
  /\ Editing
  /\ i \in DOMAIN nodePools
  /\ ~nodePools[i].autoscaling.enabled
  /\ LET clamped == IF count < 1 THEN 1 ELSE IF count > 20 THEN 20 ELSE count
     IN nodePools' = [nodePools EXCEPT ![i].count = clamped]
  /\ UNCHANGED <<controlPlane, apiPayload, readBack>>
  /\ UNCHANGED <<storeVars, asyncVars, backVars, ghostVars, workerVars, wizVars, pageVars>>

handleAutoscalingToggle(i, enabled) ==
  /\ Editing
  /\ i \in DOMAIN nodePools
  /\ nodePools' = [nodePools EXCEPT ![i].autoscaling =
        Autoscaling(enabled,
                    IF enabled THEN 1 ELSE 0,
                    IF enabled THEN Max(nodePools[i].count, 2) ELSE 1)]
  /\ UNCHANGED <<controlPlane, apiPayload, readBack>>
  /\ UNCHANGED <<storeVars, asyncVars, backVars, ghostVars, workerVars, wizVars, pageVars>>

handleMinNodesChange(i, minNodes) ==
  /\ Editing
  /\ i \in DOMAIN nodePools
  /\ nodePools[i].autoscaling.enabled
  /\ LET clamped == IF minNodes < 0 THEN 0
                    ELSE IF minNodes > 10 THEN 10 ELSE minNodes
         adjustedMinNodes == Min(clamped, nodePools[i].autoscaling.maxNodes)
     IN nodePools' = [nodePools EXCEPT ![i].autoscaling.minNodes = adjustedMinNodes]
  /\ UNCHANGED <<controlPlane, apiPayload, readBack>>
  /\ UNCHANGED <<storeVars, asyncVars, backVars, ghostVars, workerVars, wizVars, pageVars>>

handleMaxNodesChange(i, maxNodes) ==
  /\ Editing
  /\ i \in DOMAIN nodePools
  /\ nodePools[i].autoscaling.enabled
  /\ LET clamped == IF maxNodes < 1 THEN 1
                    ELSE IF maxNodes > 10 THEN 10 ELSE maxNodes
         adjustedMaxNodes == Max(clamped, nodePools[i].autoscaling.minNodes)
     IN nodePools' = [nodePools EXCEPT ![i].autoscaling.maxNodes = adjustedMaxNodes]
  /\ UNCHANGED <<controlPlane, apiPayload, readBack>>
  /\ UNCHANGED <<storeVars, asyncVars, backVars, ghostVars, workerVars, wizVars, pageVars>>

\* createCluster: a worker pool of the request
workerPool(pool) ==
  [name |-> "worker",
   number_of_nodes |-> String(IF pool.autoscaling.enabled
                                THEN pool.autoscaling.minNodes
                                ELSE pool.count),
   autoscaling |-> [enabled |-> pool.autoscaling.enabled,
                    min_nodes |-> pool.autoscaling.minNodes,
                    max_nodes |-> pool.autoscaling.maxNodes]]

\* createCluster: the control-plane pool of the request (it has no
\* autoscaling entry)
controlPlanePool(cp) ==
  [name |-> "control-plane", number_of_nodes |-> String(cp.count),
   autoscaling |-> Null]

\* handleSubmit and createCluster up to the request: pools is
\* [controlPlanePool, ...workerPools]
SubmitForm ==
  /\ Editing
  /\ apiPayload' = <<controlPlanePool(controlPlane)>>
                     \o [i \in DOMAIN nodePools |-> workerPool(nodePools[i])]
  /\ UNCHANGED <<controlPlane, nodePools, readBack>>
  /\ UNCHANGED <<storeVars, asyncVars, backVars, ghostVars, workerVars, wizVars, pageVars>>

\* mapApiClusterToUICluster: a pool of the response
mapApiPool(pool) ==
  [count |-> parseInt(pool.number_of_nodes),
   autoscaling |-> IF pool.autoscaling # Null
                     THEN Autoscaling(pool.autoscaling.enabled,
                                      pool.autoscaling.min_nodes,
                                      pool.autoscaling.max_nodes)
                     ELSE Null]

\* the response of GET /clusters/ carries the pools as they were submitted;
\* mapApiClusterToUICluster: controlPlane is nodePools[0], the rest are the
\* worker pools
ReadBack ==
  /\ apiPayload # <<>>
  /\ readBack = Null
  /\ LET pools == [i \in DOMAIN apiPayload |-> mapApiPool(apiPayload[i])]
     IN readBack' = [controlPlane |-> pools[1],
                     nodePools |-> SubSeq(pools, 2, Len(pools))]
  /\ UNCHANGED <<controlPlane, nodePools, apiPayload>>
  /\ UNCHANGED <<storeVars, asyncVars, backVars, ghostVars, workerVars, wizVars, pageVars>>

NextForm ==
  \/ handleProviderSelect
  \/ handleAddNodePool
  \/ \E i \in DOMAIN nodePools : handleRemoveNodePool(i)
  \/ \E i \in DOMAIN nodePools : \E n \in CountInputs : handleNodeCountChange(i, n)
  \/ \E i \in DOMAIN nodePools : \E b \in BOOLEAN : handleAutoscalingToggle(i, b)
  \/ \E i \in DOMAIN nodePools : \E n \in MinInputs : handleMinNodesChange(i, n)
  \/ \E i \in DOMAIN nodePools : \E n \in MaxInputs : handleMaxNodesChange(i, n)
  \/ SubmitForm
  \/ ReadBack

SpecForm == Init /\ [][NextForm]_vars

(***************************************************************************)
(* DeployAppModal and AccessConfigStep: the deploy dialog for Airflow, the *)
(* endpoints of the request it builds, and the endpoints DeploymentDetails *)
(* shows of the deployment.  A string is the sequence of its characters.   *)
(***************************************************************************)
AccessEndpointType == {"subdomain", "domain_path", "cluster_ip_path"}

\* cluster.domainName: none, or "d.e"
DomainNames == {<<>>, <<"d", ".", "e">>}

\* what a user types into the input of an endpoint
TypedValues == {<<>>, <<"a">>, <<"/", "a">>}

Executors == {"CeleryExecutor", "KubernetesExecutor"}

AccessEndpoint(name, default_access, default_value, required) ==
  [name |-> name, default_access |-> default_access,
   default_value |-> default_value, required |-> required]

\* GET /applications/{id}/access_endpoints for Airflow: the web UI, which is
\* required, and Flower, which is optional, each with a default access type
Catalogs ==
  { <<AccessEndpoint("web-ui", a, <<"w">>, TRUE),
      AccessEndpoint("flower-ui", b, <<"f">>, FALSE)>> :
      a \in AccessEndpointType, b \in {"domain_path", "cluster_ip_path"} }

startsWith(str, ch) == Len(str) > 0 /\ str[1] = ch
includes(str, ch) == \E i \in DOMAIN str : str[i] = ch

\* a non-empty string is truthy
Truthy(str) == str # ""

hasDomain == domainName # <<>>

\* the defaults of the configuration options (data/applications.ts)
\* a field of an application's form (ConfigOption of the catalog): hasDefault
\* tells `default !== undefined`, conditional names the field that must be
\* true for the option to apply ("" when the option has no condition)
ConfigOption(id, name, required, hasDefault, default, conditional) ==
  [id |-> id, name |-> name, required |-> required, hasDefault |-> hasDefault,
   default |-> default, conditional |-> conditional]

\* data/applications.ts: the options of Airflow
configOptions ==
  << ConfigOption("version", "Airflow Version", TRUE, TRUE, "2.8.1", ""),
     ConfigOption("executor", "Executor", TRUE, TRUE, "CeleryExecutor", ""),
     ConfigOption("instance_name", "Instance Name", TRUE, TRUE, "Airflow", ""),
     ConfigOption("pgbouncer_enabled", "PgBouncer", FALSE, TRUE, TRUE, ""),
     ConfigOption("flower_enabled", "Flower", FALSE, TRUE, TRUE, ""),
     ConfigOption("dags_repository", "DAGs Repository", TRUE, TRUE, "", ""),
     ConfigOption("dags_repository_branch", "DAGs Repository Branch", TRUE, TRUE, "main", ""),
     ConfigOption("dags_repository_subpath", "DAGs Subpath", TRUE, TRUE, "dags", ""),
     ConfigOption("dags_repository_private", "Private Repository", FALSE, TRUE, FALSE, ""),
     ConfigOption("dags_repository_ssh_private_key", "SSH Private Key", FALSE, TRUE, "",
                  "dags_repository_ssh_private_key") >>

\* appConfigs/airflow.tsx: the custom image fields come first
enhancedConfigOptions ==
  << ConfigOption("use_custom_image", "Use Custom Image", FALSE, TRUE, FALSE, ""),
     ConfigOption("private_registry_url", "Private Registry URL", FALSE, FALSE, "",
                  "use_custom_image"),
     ConfigOption("private_registry_username", "Registry Username", FALSE, FALSE, "",
                  "use_custom_image"),
     ConfigOption("private_registry_password", "Registry Password", FALSE, FALSE, "",
                  "use_custom_image"),
     ConfigOption("private_registry_image_tag", "Image Tag", FALSE, FALSE, "",
                  "use_custom_image") >> \o configOptions

\* the fields whose values are booleans; every other value is a string
BooleanIds ==
  {"use_custom_image", "pgbouncer_enabled", "flower_enabled", "dags_repository_private"}

\* a key the object does not have reads as undefined
Has(cfg, id) == id \in DOMAIN cfg

\* cfg[id] === true
IsTrue(cfg, id) == Has(cfg, id) /\ id \in BooleanIds /\ cfg[id] = TRUE

\* !cfg[id]: undefined, false and "" are falsy
Falsy(cfg, id) ==
  \/ ~Has(cfg, id)
  \/ id \in BooleanIds /\ cfg[id] = FALSE
  \/ id \notin BooleanIds /\ cfg[id] = ""

\* cfg[id] === undefined || cfg[id] === ""
Unset(cfg, id) == ~Has(cfg, id) \/ (id \notin BooleanIds /\ cfg[id] = "")

\* the effect on selectedApp: every option that has a default
initialConfig ==
  LET withDefault == {i \in DOMAIN enhancedConfigOptions : enhancedConfigOptions[i].hasDefault}
  IN [id \in {enhancedConfigOptions[i].id : i \in withDefault} |->
        enhancedConfigOptions[CHOOSE i \in withDefault : enhancedConfigOptions[i].id = id].default]

\* validateAirflowConfig: the names of the fields still to fill in
missing(cfg) ==
  LET reported(option) ==
        IF option.conditional # "" /\ ~IsTrue(cfg, option.conditional) THEN FALSE
        ELSE IF option.id = "version" /\ ~Falsy(cfg, "use_custom_image") THEN FALSE
        ELSE IF option.id = "airflowSshKey" /\ Falsy(cfg, "airflowRepoPrivate") THEN FALSE
        ELSE IF ~Falsy(cfg, "use_custom_image") /\ option.id = "private_registry_url"
                /\ Falsy(cfg, option.id) THEN TRUE
        ELSE option.required /\ Unset(cfg, option.id)
      kept == SelectSeq(enhancedConfigOptions, reported)
  IN (IF Falsy(cfg, "deployment_name") THEN <<"Deployment Name">> ELSE <<>>)
       \o [i \in DOMAIN kept |-> kept[i].name]

validateAirflowConfig(cfg) == missing(cfg) = <<>>

\* { ...prev, [optionId]: value }
Spread(prev, optionId, value) ==
  [k \in DOMAIN prev \cup {optionId} |-> IF k = optionId THEN value ELSE prev[k]]

\* handleSubmit's finalConfig for Airflow: dags_repository, dagsRepositoryBranch
\* and dagFolder are read from keys the form never sets and so are undefined
finalConfig(cfg) ==
  LET kept == DOMAIN cfg \ {"dags_repository", "dagsRepositoryBranch", "dagFolder"}
  IN Spread([k \in kept |-> cfg[k]], "dagsRepositorySshPrivateKey", "")

\* the flower rule of AccessConfigStep and of DeploymentDetails
isFlowerShown_ExecutorOnly(cfg) == cfg.executor = "CeleryExecutor"
isFlowerShown(cfg) == cfg.executor = "CeleryExecutor" /\ cfg.flower_enabled = TRUE

\* AccessConfigStep: the endpoints that get a tab
filteredEndpoints ==
  LET keep(endpoint) == IF endpoint.name = "flower-ui" THEN isFlowerShown(config) ELSE TRUE
  IN SelectSeq(accessEndpoints, keep)

\* the endpoint configurations the fetch effect starts the access step with
initialConfigs(endpoints) ==
  [i \in DOMAIN endpoints |->
     [name |-> endpoints[i].name,
      access_type |-> endpoints[i].default_access,
      value |-> endpoints[i].default_value]]

\* the effect that runs when the step becomes "nodepool" or "access"
fetchAccessEndpoints ==
  /\ accessEndpoints' = catalog
  /\ endpointConfigs' = initialConfigs(catalog)

getEndpointConfig(name) ==
  SelectSeq(endpointConfigs, LAMBDA cfg : cfg.name = name)

\* AccessConfigStep's enabled state of an endpoint that has a tab
enabledEndpoints(endpoint) ==
  endpoint.required \/ getEndpointConfig(endpoint.name) # <<>>

\* the dialog opens: the open effect resets it
Open ==
  /\ step = "closed"
  /\ step' = "selection"
  /\ config' = Null
  /\ accessEndpoints' = <<>>
  /\ endpointConfigs' = <<>>
  /\ UNCHANGED <<domainName, catalog, deployment>>
  /\ UNCHANGED <<storeVars, asyncVars, backVars, ghostVars, workerVars, uiVars, pageVars>>

onClose ==
  /\ step # "closed"
  /\ step' = "closed"
  /\ UNCHANGED <<domainName, catalog, config, accessEndpoints, endpointConfigs, deployment>>
  /\ UNCHANGED <<storeVars, asyncVars, backVars, ghostVars, workerVars, uiVars, pageVars>>

\* Airflow is selected; the effect on selectedApp sets the defaults when the
\* selection changed
handleAppSelect ==
  /\ step = "selection"
  /\ step' = "configuration"
  /\ config' = IF config = Null THEN initialConfig ELSE config
  /\ UNCHANGED <<domainName, catalog, accessEndpoints, endpointConfigs, deployment>>
  /\ UNCHANGED <<storeVars, asyncVars, backVars, ghostVars, workerVars, uiVars, pageVars>>

\* AppConfigStep: flower_enabled is offered only with the CeleryExecutor
shouldShowField(optionId) ==
  LET option == enhancedConfigOptions[CHOOSE i \in DOMAIN enhancedConfigOptions :
                                        enhancedConfigOptions[i].id = optionId]
  IN IF optionId = "deployment_name" THEN TRUE
     ELSE IF option.conditional # "" THEN IsTrue(config, option.conditional)
     ELSE IF optionId = "flower_enabled" THEN config.executor = "CeleryExecutor"
     ELSE TRUE

updateConfig(optionId, value) ==
  /\ step = "configuration"
  /\ shouldShowField(optionId)
  /\ config' = Spread(config, optionId, value)
  /\ UNCHANGED <<domainName, catalog, step, accessEndpoints, endpointConfigs, deployment>>
  /\ UNCHANGED <<storeVars, asyncVars, backVars, ghostVars, workerVars, uiVars, pageVars>>

\* the Back button
Back ==
  /\ step \in {"configuration", "volumes", "nodepool", "access"}
  /\ step' = CASE step = "access" -> "nodepool"
               [] step = "nodepool" -> "volumes"
               [] step = "volumes" -> "configuration"
               [] OTHER -> "selection"
  /\ IF step' = "nodepool"
       THEN fetchAccessEndpoints
       ELSE UNCHANGED <<accessEndpoints, endpointConfigs>>
  /\ UNCHANGED <<domainName, catalog, config, deployment>>
  /\ UNCHANGED <<storeVars, asyncVars, backVars, ghostVars, workerVars, uiVars, pageVars>>

\* AccessConfigStep.updateEndpointConfig
updateEndpointConfig(name, field, value) ==
  IF getEndpointConfig(name) # <<>>
    THEN endpointConfigs' =
           [i \in DOMAIN endpointConfigs |->
              IF endpointConfigs[i].name = name /\
                 \A j \in 1 .. (i - 1) : endpointConfigs[j].name # name
                THEN [endpointConfigs[i] EXCEPT ![field] = value]
                ELSE endpointConfigs[i]]
    ELSE LET found == SelectSeq(filteredEndpoints, LAMBDA e : e.name = name)
         IN IF found # <<>>
              THEN endpointConfigs' = Append(endpointConfigs,
                     [name |-> name,
                      access_type |-> IF field = "access_type" THEN value
                                      ELSE found[1].default_access,
                      value |-> IF field = "value" THEN value
                                ELSE found[1].default_value])
              ELSE endpointConfigs' = endpointConfigs

\* the access type EndpointAccessForm shows for an endpoint
accessType(endpoint) ==
  IF getEndpointConfig(endpoint.name) # <<>>
    THEN getEndpointConfig(endpoint.name)[1].access_type
    ELSE endpoint.default_access

\* EndpointAccessForm: the Access Type select, rendered when the cluster has
\* a domain
onValueChange(endpoint, value) ==
  /\ step = "access"
  /\ enabledEndpoints(endpoint)
  /\ hasDomain
  /\ updateEndpointConfig(endpoint.name, "access_type", value)
  /\ UNCHANGED <<domainName, catalog, step, config, accessEndpoints, deployment>>
  /\ UNCHANGED <<storeVars, asyncVars, backVars, ghostVars, workerVars, uiVars, pageVars>>

\* EndpointAccessForm: the Subdomain input stores what is typed, the Path
\* inputs store it with a leading '/'
onChange(endpoint, typed) ==
  /\ step = "access"
  /\ enabledEndpoints(endpoint)
  /\ updateEndpointConfig(endpoint.name, "value",
        IF hasDomain /\ accessType(endpoint) = "subdomain" THEN typed
        ELSE IF startsWith(typed, "/") THEN typed ELSE <<"/">> \o typed)
  /\ UNCHANGED <<domainName, catalog, step, config, accessEndpoints, deployment>>
  /\ UNCHANGED <<storeVars, asyncVars, backVars, ghostVars, workerVars, uiVars, pageVars>>

\* AccessConfigStep.toggleEndpoint, from the checkbox of an optional endpoint
toggleEndpoint(endpoint, enabled) ==
  /\ step = "access"
  /\ ~endpoint.required
  /\ enabled = ~enabledEndpoints(endpoint)
  /\ IF ~enabled
       THEN endpointConfigs' =
              SelectSeq(endpointConfigs, LAMBDA cfg : cfg.name # endpoint.name)
       ELSE endpointConfigs' = Append(endpointConfigs,
              [name |-> endpoint.name,
               access_type |-> IF endpoint.default_access = "domain_path"
                                 THEN "domain_path"
                                 ELSE IF hasDomain THEN "subdomain"
                                      ELSE "cluster_ip_path",
               value |-> endpoint.default_value])
  /\ UNCHANGED <<domainName, catalog, step, config, accessEndpoints, deployment>>
  /\ UNCHANGED <<storeVars, asyncVars, backVars, ghostVars, workerVars, uiVars, pageVars>>

\* handleSubmit: the value of an endpoint as it is sent
formattedValue(access_type, value, domain) ==
  LET slashed ==
        IF (access_type = "domain_path" \/ Truthy("cluster_ip_path")) /\
           ~startsWith(value, "/")
          THEN <<"/">> \o value ELSE value
  IN IF access_type = "subdomain" /\ domain # <<>>
       THEN IF ~includes(slashed, ".") THEN slashed \o <<".">> \o domain ELSE slashed
       ELSE IF access_type = "domain_path" /\ domain # <<>>
              THEN domain \o slashed
              ELSE slashed

formattedEndpoints ==
  [i \in DOMAIN endpointConfigs |->
     [endpointConfigs[i] EXCEPT
        !.value = formattedValue(endpointConfigs[i].access_type,
                                 endpointConfigs[i].value, domainName)]]

\* handleSubmit at the access step refuses with a toast: no configuration,
\* a required endpoint without one, or a configuration without a value
\* what one checkEndpointExistence can come back with: the endpoint is
\* free, it exists, or the request failed
EndpointReports == {"free", "exists", "error"}

\* validateEndpoints: false at the first endpoint that exists, false when a
\* request throws, true when the loop ends
validateEndpoints_ConflictOnly(reports) ==
  \A i \in DOMAIN reports : reports[i] # "exists"
validateEndpoints(reports) ==
  \A i \in DOMAIN reports : reports[i] = "free"

SubmitRefused ==
  \/ Len(endpointConfigs) = 0
  \/ \E i \in DOMAIN accessEndpoints :
        accessEndpoints[i].required /\ getEndpointConfig(accessEndpoints[i].name) = <<>>
  \/ \E i \in DOMAIN endpointConfigs : endpointConfigs[i].value = <<>>

\* DeployAppModal.handleSubmit, the Next / Deploy Application button: at the
\* access step the endpoints are formatted, validateEndpoints finds them
\* free, createDeployment puts the deployment in the store and the dialog
\* closes
handleSubmit ==
  /\ step \in {"configuration", "volumes", "nodepool", "access"}
  /\ CASE step = "configuration" ->
            /\ step' = IF validateAirflowConfig(config) THEN "volumes" ELSE step
            /\ UNCHANGED <<accessEndpoints, endpointConfigs, deployment>>
       [] step = "volumes" ->
            /\ step' = "nodepool"
            /\ fetchAccessEndpoints
            /\ UNCHANGED deployment
       [] step = "nodepool" ->
            /\ step' = "access"
            /\ fetchAccessEndpoints
            /\ UNCHANGED deployment
       [] OTHER ->
            IF SubmitRefused
              THEN UNCHANGED <<step, accessEndpoints, endpointConfigs, deployment>>
              ELSE \E reports \in [DOMAIN formattedEndpoints -> EndpointReports] :
                     IF validateEndpoints(reports)
                       THEN /\ deployment' = [config |-> finalConfig(config),
                                              accessEndpoints |-> formattedEndpoints,
                                              reports |-> reports]
                            /\ step' = "closed"
                            /\ UNCHANGED <<accessEndpoints, endpointConfigs>>
                       ELSE UNCHANGED <<step, accessEndpoints, endpointConfigs, deployment>>
  /\ UNCHANGED <<domainName, catalog, config>>
  /\ UNCHANGED <<storeVars, asyncVars, backVars, ghostVars, workerVars, uiVars, pageVars>>

\* DeploymentDetails: the endpoints built for display
builtEndpoints(foundApp) ==
  LET keep(cfg) == IF cfg.name = "flower-ui" THEN isFlowerShown(foundApp.config) ELSE TRUE
  IN SelectSeq(foundApp.accessEndpoints, keep)

\* the dialog shut on a cluster with or without a domain, the catalog with
\* any default access types
InitWizard ==
  /\ StoreInit
  /\ WorkerInit
  /\ UiInit
  /\ PageInit
  /\ domainName \in DomainNames
  /\ catalog \in Catalogs
  /\ step = "closed"
  /\ config = Null
  /\ accessEndpoints = <<>>
  /\ endpointConfigs = <<>>
  /\ deployment = Null

NextWizard ==
  \/ Open
  \/ onClose
  \/ handleAppSelect
  \/ \E e \in Executors : updateConfig("executor", e)
  \/ \E b \in BOOLEAN : updateConfig("flower_enabled", b)
  \/ \E v \in {"", "etl"} : updateConfig("deployment_name", v)
  \/ updateConfig("dags_repository", "git")
  \/ Back
  \/ \E i \in DOMAIN filteredEndpoints : \E t \in AccessEndpointType :
        onValueChange(filteredEndpoints[i], t)
  \/ \E i \in DOMAIN filteredEndpoints : \E v \in TypedValues :
        onChange(filteredEndpoints[i], v)
  \/ \E i \in DOMAIN filteredEndpoints : \E b \in BOOLEAN :
        toggleEndpoint(filteredEndpoints[i], b)
  \/ handleSubmit

SpecWizard == InitWizard /\ [][NextWizard]_vars

\* what can be typed into a text field of the configuration step
TextValues(optionId) ==
  CASE optionId = "deployment_name" -> {"", "etl"}
    [] optionId = "version" -> {"", "2.8.1"}
    [] optionId = "private_registry_url" -> {"", "registry.io/airflow"}
    [] optionId = "private_registry_image_tag" -> {"", "latest"}
    [] OTHER -> {"", "git"}

TextFields ==
  {"deployment_name", "version", "private_registry_url", "private_registry_image_tag",
   "dags_repository"}

\* the configuration step of the wizard with the custom image fields
NextConfig ==
  \/ Open
  \/ onClose
  \/ handleAppSelect
  \/ \E b \in BOOLEAN : updateConfig("use_custom_image", b)
  \/ \E f \in TextFields : \E v \in TextValues(f) : updateConfig(f, v)
  \/ Back
  \/ handleSubmit

SpecConfig == InitWizard /\ [][NextConfig]_vars

\* ============================== kubeconfig and credentials, read requests
\* ClusterDetails: Settings > Download Kubeconfig is enabled for a cluster
\* the store shows as running; downloadKubeconfig up to
\* `await api.getClusterKubeconfig`
DownloadKubeconfig(id) ==
  /\ CanIssue
  /\ id \in ClusterIds /\ ClusterById(id).status = RUNNING
  /\ calls' = calls \cup {Call(nextId, "downloadKubeconfig", "sent", id, NoId, "", NoPayload)}
  /\ nextId' = nextId + 1
  /\ ops' = ops + 1
  /\ UNCHANGED <<storeVars, fetches, backVars, ghostVars, workerVars, uiVars, wizVars, pageVars>>

\* the control plane serves the two read requests for a row in status
\* running only
BServes_UnlessFailed(status) == status # FAILED
BServes(status) == status = RUNNING

\* the answer to a read request on a row: 404 without the row, 409 when the
\* row is not served, else the document
BRead(c, rows, document) ==
  IF rows = {} THEN [c EXCEPT !.ph = "err", !.resp = "not_found"]
  ELSE IF \E r \in rows : BServes(r.status)
         THEN [c EXCEPT !.ph = "ok", !.resp = document]
         ELSE [c EXCEPT !.ph = "err", !.resp = "conflict"]

\* GET /clusters/{id}/kubeconfig
BackendGetKubeconfig(c) ==
  /\ c \in calls /\ c.op = "downloadKubeconfig" /\ c.ph = "sent"
  /\ calls' = Replace(calls, c,
       BRead(c, {r \in Range(bClusters) : ApiId(r.id) = c.id}, "kubeconfig"))
  /\ UNCHANGED <<storeVars, fetches, nextId, ops, backVars, ghostVars, workerVars, uiVars, wizVars, pageVars>>

\* downloadKubeconfig after the await: the file is handed to the browser
DownloadKubeconfigOk(c) ==
  /\ c \in calls /\ c.op = "downloadKubeconfig" /\ c.ph = "ok"
  /\ calls' = calls \ {c}
  /\ UNCHANGED <<storeVars, fetches, nextId, ops, backVars, ghostVars, workerVars, uiVars, wizVars, pageVars>>

\* downloadKubeconfig's catch: a toast, the error is thrown on
DownloadKubeconfigErr(c) ==
  /\ c \in calls /\ c.op = "downloadKubeconfig" /\ c.ph = "err"
  /\ calls' = calls \ {c}
  /\ UNCHANGED <<storeVars, fetches, nextId, ops, backVars, ghostVars, workerVars, uiVars, wizVars, pageVars>>

DeploymentById(cid, did) ==
  CHOOSE d \in Range(ClusterById(cid).deployments) : d.id = did

\* DeploymentDetails: Get Credentials is enabled for a deployment the store
\* shows as running; CredentialsModal's effect up to
\* `await getDeploymentCredentials`
fetchCredentials(cid, did) ==
  /\ CanIssue
  /\ did \in DeploymentIds(cid) /\ DeploymentById(cid, did).status = RUNNING
  /\ calls' = calls \cup {Call(nextId, "getDeploymentCredentials", "sent", did, cid, "", NoPayload)}
  /\ nextId' = nextId + 1
  /\ ops' = ops + 1
  /\ UNCHANGED <<storeVars, fetches, backVars, ghostVars, workerVars, uiVars, wizVars, pageVars>>

\* GET /clusters/{id}/deployments/{did}/credentials
BackendGetCredentials(c) ==
  /\ c \in calls /\ c.op = "getDeploymentCredentials" /\ c.ph = "sent"
  /\ calls' = Replace(calls, c,
       BRead(c, {d \in Range(bDeployments) :
                   ApiId(d.id) = c.id /\ ApiId(d.cluster_id) = c.cid}, "credentials"))
  /\ UNCHANGED <<storeVars, fetches, nextId, ops, backVars, ghostVars, workerVars, uiVars, wizVars, pageVars>>

\* the effect after the await: setCredentials, or setError and a toast
fetchCredentialsDone(c) ==
  /\ c \in calls /\ c.op = "getDeploymentCredentials" /\ c.ph \in {"ok", "err"}
  /\ calls' = calls \ {c}
  /\ UNCHANGED <<storeVars, fetches, nextId, ops, backVars, ghostVars, workerVars, uiVars, wizVars, pageVars>>

\* a running cluster with one deployment, being installed or running, the
\* store as the last fetch left it
InitServeWith(dst) ==
  /\ bClusters = <<[id |-> 1, name |-> "prod", status |-> RUNNING,
                    access_ip |-> "ip", error_message |-> ""]>>
  /\ bDeployments = <<[id |-> 2, cluster_id |-> 1, name |-> "etl", app |-> "airflow",
                       status |-> dst, endpoints |-> <<Ep("web-ui", "/a")>>,
                       volumes |-> {}]>>
  /\ bVolumes = <<>>
  /\ bNextId = 3
  /\ clusters = MapSeq(ApiClusters, mapApiClusterToUICluster)
  /\ volumes = <<>>
  /\ domainActivities = <<>>
  /\ calls = {} /\ fetches = {} /\ nextId = 1 /\ ops = 0
  /\ errored = {} /\ extFail = FALSE
  /\ WorkerInit
  /\ UiInit
  /\ WizInit
  /\ PageInit

InitServe == \E dst \in {DEPLOYING, RUNNING} : InitServeWith(dst)

\* the read requests next to the deletes, the installs and the fetches that
\* change what the rows and the store say
NextServe ==
  \/ \E id \in ClusterIds : DownloadKubeconfig(id)
  \/ \E c \in calls : BackendGetKubeconfig(c)
  \/ \E c \in calls : DownloadKubeconfigOk(c)
  \/ \E c \in calls : DownloadKubeconfigErr(c)
  \/ \E cid \in ClusterIds : \E did \in DeploymentIds(cid) : fetchCredentials(cid, did)
  \/ \E c \in calls : BackendGetCredentials(c)
  \/ \E c \in calls : fetchCredentialsDone(c)
  \/ \E id \in ClusterIds : DeleteCluster(id)
  \/ \E c \in calls : BackendDeleteCluster(c)
  \/ \E c \in calls : DeleteClusterOk(c)
  \/ \E c \in calls : DeleteClusterTimer(c)
  \/ \E c \in calls : DeleteClusterErr(c)
  \/ \E i \in DOMAIN bClusters : BackendTeardownDone(i)
  \/ \E i \in DOMAIN bClusters : BackendTeardownFail(i)
  \/ \E cid \in ClusterIds : \E did \in DeploymentIds(cid) : DeleteDeployment(cid, did)
  \/ \E c \in calls : BackendDeleteDeployment(c)
  \/ \E c \in calls : DeleteDeploymentOk(c)
  \/ \E c \in calls : DeleteDeploymentErr(c)
  \/ \E i \in DOMAIN bDeployments : BackendInstallDone(i)
  \/ \E i \in DOMAIN bDeployments : BackendInstallFail(i)
  \/ \E i \in DOMAIN bDeployments : BackendUninstallDone(i)
  \/ FetchClusters
  \/ \E f \in fetches : BackendGetClusters(f)
  \/ \E f \in fetches : FetchClustersOk(f)
  \/ \E f \in fetches : FetchErr(f)
  \/ \E c \in calls : CallNetworkFail(c)
  \/ \E f \in fetches : FetchNetworkFail(f)

SpecServe == InitServe /\ [][NextServe]_vars

\* ===================================================== the health-check hook
MaxChecks == 2               \* health requests outstanding at once

DeploymentStatuses == {DEPLOYING, RUNNING, UPDATING, FAILED, DELETING}
Endpoints == {"", "http://ip/a"}

shouldCheckHealth(h) == h.deploymentStatus = RUNNING

\* checkHealth up to its `await fetch`: nothing without an endpoint
checkHealth(h) ==
  IF h.endpoint = "" THEN h
  ELSE [h EXCEPT !.healthStatus = "checking", !.requests = h.requests + 1]

\* the effect of useHealthCheck: pending when the deployment is not running,
\* else a first check at once and the interval
effect(h) ==
  IF ~shouldCheckHealth(h) THEN [h EXCEPT !.healthStatus = "pending"] ELSE checkHealth(h)

\* the component is rendered with other props; the effect runs again when
\* endpoint or shouldCheckHealth changed, its cleanup clears the interval
Rerender(status, endpoint) ==
  LET h == [health EXCEPT !.deploymentStatus = status, !.endpoint = endpoint]
  IN /\ <<status, endpoint>> # <<health.deploymentStatus, health.endpoint>>
     /\ h.requests < MaxChecks
     /\ health' = IF endpoint # health.endpoint
                     \/ shouldCheckHealth(h) # shouldCheckHealth(health)
                    THEN effect(h) ELSE h
     /\ UNCHANGED <<storeVars, asyncVars, backVars, ghostVars, workerVars, uiVars, wizVars, modal>>

\* the interval set by the effect fires
IntervalFire ==
  /\ shouldCheckHealth(health)
  /\ health.endpoint # ""
  /\ health.requests < MaxChecks
  /\ health' = checkHealth(health)
  /\ UNCHANGED <<storeVars, asyncVars, backVars, ghostVars, workerVars, uiVars, wizVars, modal>>

\* how a health request can end, and the message the hook keeps for it
HealthOutcomes == {"ok", "not_ok", "abort", "network", "other"}

outcomeMessage(outcome) ==
  CASE outcome = "ok" -> ""
    [] outcome = "not_ok" -> "Service unavailable"
    [] outcome = "abort" -> "Request timed out"
    [] outcome = "network" -> "Network error - possibly CORS related"
    [] OTHER -> "Unable to connect to application"

\* checkHealth after the await: the answer, or the catch
checkHealthDone(outcome) ==
  /\ health.requests > 0
  /\ health' = [health EXCEPT !.requests = health.requests - 1,
                              !.healthStatus = IF outcome = "ok" THEN "healthy" ELSE "unhealthy",
                              !.errorMessage = outcomeMessage(outcome)]
  /\ UNCHANGED <<storeVars, asyncVars, backVars, ghostVars, workerVars, uiVars, wizVars, modal>>

NextHealth ==
  \/ \E status \in DeploymentStatuses : \E endpoint \in Endpoints : Rerender(status, endpoint)
  \/ IntervalFire
  \/ \E outcome \in HealthOutcomes : checkHealthDone(outcome)

SpecHealth == Init /\ [][NextHealth]_vars

\* ================================== CreateClusterModal, the five-step dialog
NameInputs == {"", " ", "prod", "PROD"}
TokenInputs == {"", "token"}
UsernameInputs == {Chars(2, "a"), Chars(5, "a"), Chars(21, "a")}
PasswordInputs == {<<>>, Chars(3, "p"), Chars(4, "p"), Chars(4, " ")}

\* String.prototype.trim and toLowerCase on the names that can be typed
trim(s) == IF s = " " THEN "" ELSE s
toLowerCase(s) == IF s = "PROD" THEN "prod" ELSE s

\* trim() of a text kept as characters is empty when it holds spaces only
blank(text) == \A i \in DOMAIN text : text[i] = " "

\* checkClusterNameExists: the message it leaves in nameError
checkClusterNameExists(clusterName) ==
  IF trim(clusterName) = "" THEN ""
  ELSE IF \E i \in DOMAIN clusters :
            toLowerCase(clusters[i].name) = toLowerCase(clusterName)
         THEN "A cluster with this name already exists"
         ELSE ""

\* the dialog is opened: the effect on `open` resets the fields, all but the
\* API token
openModal ==
  /\ modal.currentStep = 0
  /\ modal' = [modalDefaults EXCEPT !.currentStep = 1,
                                    !.providerApiToken = modal.providerApiToken]
  /\ controlPlane' = Null
  /\ nodePools' = <<>>
  /\ UNCHANGED <<apiPayload, readBack>>
  /\ UNCHANGED <<storeVars, asyncVars, backVars, ghostVars, workerVars, wizVars, health>>

handleNameChange(newName) ==
  /\ modal.currentStep = 1
  /\ modal' = [modal EXCEPT !.name = newName, !.nameError = checkClusterNameExists(newName)]
  /\ UNCHANGED <<storeVars, asyncVars, backVars, ghostVars, workerVars, uiVars, wizVars, health>>

\* handleProviderSelect with the effect on selectedProvider: Hetzner, the
\* default control plane and, the first time, the default pool
selectProvider ==
  /\ modal.currentStep = 1
  /\ modal.selectedProvider = ""
  /\ modal' = [modal EXCEPT !.selectedProvider = "hetzner"]
  /\ controlPlane' = ControlPlaneDefault
  /\ nodePools' = IF nodePools = <<>> THEN <<NewNodePool>> ELSE nodePools
  /\ UNCHANGED <<apiPayload, readBack>>
  /\ UNCHANGED <<storeVars, asyncVars, backVars, ghostVars, workerVars, wizVars, health>>

setProviderApiToken(value) ==
  /\ modal.currentStep = 1
  /\ modal.selectedProvider = "hetzner"
  /\ modal' = [modal EXCEPT !.providerApiToken = value]
  /\ UNCHANGED <<storeVars, asyncVars, backVars, ghostVars, workerVars, uiVars, wizVars, health>>

\* handlePrivateKeyPathChange: the public key path follows with .pub
handlePrivateKeyPathChange(newPrivateKeyPath) ==
  /\ modal.currentStep = 1
  /\ modal.selectedProvider = "hetzner"
  /\ modal' = [modal EXCEPT !.sshPrivateKeyPath = newPrivateKeyPath,
                            !.sshPublicKeyPath =
                               IF newPrivateKeyPath = "" THEN ".pub" ELSE "~/.ssh/id_rsa.pub"]
  /\ UNCHANGED <<storeVars, asyncVars, backVars, ghostVars, workerVars, uiVars, wizVars, health>>

setSshPublicKeyPath(value) ==
  /\ modal.currentStep = 1
  /\ modal.selectedProvider = "hetzner"
  /\ modal' = [modal EXCEPT !.sshPublicKeyPath = value]
  /\ UNCHANGED <<storeVars, asyncVars, backVars, ghostVars, workerVars, uiVars, wizVars, health>>

handleTraefikToggle(enabled) ==
  /\ modal.currentStep = 4
  /\ modal' = [modal EXCEPT !.traefik_dashboard.enabled = enabled]
  /\ UNCHANGED <<storeVars, asyncVars, backVars, ghostVars, workerVars, uiVars, wizVars, health>>

\* the two inputs are shown while the dashboard is enabled
handleTraefikUsernameChange(username) ==
  /\ modal.currentStep = 4
  /\ modal.traefik_dashboard.enabled
  /\ modal' = [modal EXCEPT !.traefik_dashboard.username = username]
  /\ UNCHANGED <<storeVars, asyncVars, backVars, ghostVars, workerVars, uiVars, wizVars, health>>

handleTraefikPasswordChange(password) ==
  /\ modal.currentStep = 4
  /\ modal.traefik_dashboard.enabled
  /\ modal' = [modal EXCEPT !.traefik_dashboard.password = password]
  /\ UNCHANGED <<storeVars, asyncVars, backVars, ghostVars, workerVars, uiVars, wizVars, health>>

\* the Traefik test of nextStep and of handleSubmit
traefikInvalid(t) ==
  /\ t.enabled
  /\ \/ blank(t.username) \/ Len(t.username) < 3 \/ Len(t.username) > 20
     \/ blank(t.password) \/ Len(t.password) < 4 \/ Len(t.password) > 20

\* nextStep refuses with a toast; the domain name of step 3 is left unused
nextStepRefused ==
  \/ /\ modal.currentStep = 1
     /\ \/ trim(modal.name) = "" \/ modal.selectedProvider = "" \/ modal.nameError # ""
        \/ /\ modal.selectedProvider = "hetzner"
           /\ \/ trim(modal.sshPrivateKeyPath) = "" \/ trim(modal.sshPublicKeyPath) = ""
              \/ trim(modal.providerApiToken) = ""
  \/ modal.currentStep = 2 /\ controlPlane = Null
  \/ modal.currentStep = 4 /\ traefikInvalid(modal.traefik_dashboard)

\* the Next button, disabled at step 1 while nameError is set
nextStep ==
  /\ modal.currentStep \in 1..4
  /\ ~(modal.nameError # "" /\ modal.currentStep = 1)
  /\ modal' = IF nextStepRefused THEN modal
              ELSE [modal EXCEPT !.currentStep = modal.currentStep + 1]
  /\ UNCHANGED <<storeVars, asyncVars, backVars, ghostVars, workerVars, uiVars, wizVars, health>>

prevStep ==
  /\ modal.currentStep \in 2..5
  /\ modal' = [modal EXCEPT !.currentStep = modal.currentStep - 1]
  /\ UNCHANGED <<storeVars, asyncVars, backVars, ghostVars, workerVars, uiVars, wizVars, health>>

handleSubmitRefused ==
  \/ modal.selectedProvider = "" \/ controlPlane = Null
  \/ /\ modal.selectedProvider = "hetzner"
     /\ \/ modal.sshPrivateKeyPath = "" \/ modal.sshPublicKeyPath = ""
        \/ modal.providerApiToken = ""
  \/ traefikInvalid(modal.traefik_dashboard)

\* the Create Cluster button of step 5, disabled while nameError is set:
\* createCluster is called and, when it returns, the dialog is shut
handleSubmitCreate ==
  /\ modal.currentStep = 5
  /\ modal.nameError = ""
  /\ ~handleSubmitRefused
  /\ CreateCluster(modal.name)
  /\ modal' = [modal EXCEPT !.currentStep = 0]

\* the control plane knows a cluster the store has not fetched yet
InitModal ==
  /\ clusters = <<>> /\ volumes = <<>> /\ domainActivities = <<>>
  /\ calls = {} /\ fetches = {} /\ nextId = 1 /\ ops = 0
  /\ bClusters = <<[id |-> 1, name |-> "prod", status |-> RUNNING,
                    access_ip |-> "ip", error_message |-> ""]>>
  /\ bDeployments = <<>> /\ bVolumes = <<>> /\ bNextId = 2
  /\ errored = {} /\ extFail = FALSE
  /\ WorkerInit
  /\ UiInit
  /\ WizInit
  /\ PageInit

NextModal ==
  \/ openModal
  \/ \E newName \in NameInputs : handleNameChange(newName)
  \/ selectProvider
  \/ \E value \in TokenInputs : setProviderApiToken(value)
  \/ \E p \in {"", "~/.ssh/id_rsa"} : handlePrivateKeyPathChange(p)
  \/ \E p \in {"", "~/.ssh/id_rsa.pub"} : setSshPublicKeyPath(p)
  \/ \E enabled \in BOOLEAN : handleTraefikToggle(enabled)
  \/ \E username \in UsernameInputs : handleTraefikUsernameChange(username)
  \/ \E password \in PasswordInputs : handleTraefikPasswordChange(password)
  \/ nextStep
  \/ prevStep
  \/ handleSubmitCreate
  \/ \E c \in calls : BackendCreateCluster(c)
  \/ \E c \in calls : CreateClusterOk(c)
  \/ \E c \in calls : CreateClusterErr(c)
  \/ \E c \in calls : FetchTimerFire(c)
  \/ FetchClusters
  \/ \E f \in fetches : BackendGetClusters(f)
  \/ \E f \in fetches : FetchClustersOk(f)

SpecModal == InitModal /\ [][NextModal]_vars





\* ================================================================ claims
BDeploymentRunning(rows, cid, name) ==
  \E i \in DOMAIN rows :
     /\ ApiId(rows[i].cluster_id) = cid
     /\ rows[i].name = name
     /\ rows[i].status = RUNNING

\* C1: a deployment's status in the store advances to running only when the
\* control plane records the install as completed (the control plane's own
\* answer to a fetch aside); elapsed time alone never advances it.
C1_AdvanceOnlyOnCompletion ==
  [][\A i \in DOMAIN clusters : \A j \in DOMAIN clusters' :
       clusters[i].id = clusters'[j].id =>
         \A k \in DOMAIN clusters[i].deployments : \A l \in DOMAIN clusters'[j].deployments :
            LET d == clusters[i].deployments[k]
                e == clusters'[j].deployments[l]
            IN (d.id = e.id /\ d.status # RUNNING /\ e.status = RUNNING /\ fetches' = fetches)
                  => BDeploymentRunning(bDeployments', clusters[i].id, e.name)]_vars

\* C2: every deployment whose operation ended on its error path is in status
\* failed.
C2_ErrorsEndFailed ==
  \A i \in DOMAIN clusters : \A k \in DOMAIN clusters[i].deployments :
     clusters[i].deployments[k].id \in errored
        => clusters[i].deployments[k].status = FAILED

\* C3: a cluster shown as deleting leaves the list only once the control
\* plane has removed its row, that is once teardown has succeeded.
C3_RemovedOnlyAfterTeardown ==
  [][\A i \in DOMAIN clusters :
       (clusters[i].status = DELETING /\ clusters[i].id \notin ClusterIds')
          => ~ \E k \in DOMAIN bClusters' : ApiId(bClusters'[k].id) = clusters[i].id]_vars

\* C4: once a cluster has been seen running or failed, it is never seen
\* pending or creating afterwards.
C4_StatusMonotone ==
  [][\A i \in DOMAIN clusters : \A j \in DOMAIN clusters' :
       (clusters[i].id = clusters'[j].id /\ clusters[i].status \in Terminal)
          => clusters'[j].status \notin Early]_vars

\* nothing is in flight and no control plane procedure is still running
Quiescent ==
  /\ calls = {} /\ fetches = {}
  /\ \A i \in DOMAIN bClusters : bClusters[i].status \notin {CREATING, DELETING}

\* C5: with no external failure, once every request, timer and procedure has
\* run to its end, no cluster is left pending, creating, deploying or updating.
C5_Converges ==
  (Quiescent /\ ~extFail)
     => \A i \in DOMAIN clusters :
           clusters[i].status \notin {PENDING, CREATING, DEPLOYING, UPDATING}

\* the (deployment, endpoint) positions of a cluster
EndpointSlots(c) ==
  {<<k, l>> : k \in DOMAIN c.deployments, l \in 1..2} \cap
  UNION {{<<k, l>> : l \in DOMAIN c.deployments[k].accessEndpoints} : k \in DOMAIN c.deployments}

\* C7: within one cluster no two endpoints have the same (access_type, value).
C7_EndpointsUnique ==
  \A i \in DOMAIN clusters :
     \A s \in EndpointSlots(clusters[i]) : \A t \in EndpointSlots(clusters[i]) :
        LET e == clusters[i].deployments[s[1]].accessEndpoints[s[2]]
            f == clusters[i].deployments[t[1]].accessEndpoints[t[2]]
        IN s # t => ~(e.access_type = f.access_type /\ e.value = f.value)

Referenced(name) ==
  \E i \in DOMAIN clusters : \E k \in DOMAIN clusters[i].deployments :
     name \in clusters[i].deployments[k].volumes

\* C8: a volume's inUse flag is true exactly when some deployment references
\* the volume.
C8_InUseIffReferenced ==
  \A i \in DOMAIN volumes : volumes[i].inUse <=> Referenced(volumes[i].name)

\* C9: when a delete of a volume is refused because the volume is in use, the
\* volume is afterwards as it was when the delete was requested.
C9_RefusedDeleteUnchanged ==
  [][\A c \in calls :
       (c.op = "deleteVolume" /\ c.ph = "err" /\ c.resp = "conflict"
          /\ calls' = calls \ {c} /\ fetches' = fetches)
          => \A i \in DOMAIN volumes' :
                volumes'[i].id = c.id => volumes'[i].status = c.prev]_vars

\* C6: the commands of one cluster (cluster create, delete and configure,
\* deployment mutations) are executed one at a time, never two together.
C6_OnePerCluster ==
  \A c \in WClusters : Cardinality(OpsOf(c)) <= 1

\* two clusters each execute a step at the same time, while a further
\* command of the first waits in its queue
C6_Witness ==
  \E a \in wrun, b \in wrun :
    /\ a.c # b.c
    /\ a.inStep /\ b.inStep
    /\ wqueue[a.c] # <<>>

\* C10: while a delete that arrived during the create of its cluster tears
\* the cluster down, no create of that cluster is being executed, and once
\* the teardown has discovered its targets every resource that carries the
\* cluster's label at the provider is among them.
C10_DeleteAfterCancellation ==
  \A op \in wrun :
    op.kind = "delete" =>
      /\ \A o \in OpsOf(op.c) : o.kind # "create"
      /\ op.disc => Labelled(op.c) \subseteq op.targets

\* a delete that arrived during the create runs its teardown after the create
\* was cancelled, and has discovered a resource that was never recorded
C10_Witness ==
  \E op \in wrun :
    /\ op.kind = "delete" /\ op.during /\ op.disc
    /\ wreason[op.c] = "cancelled"
    /\ \E r \in op.targets : r \notin recorded

\* C11: the queue of a cluster never holds more than 8 commands, and a
\* command that was answered 503 is neither in a queue nor being executed.
C11_QueueBounded ==
  /\ \A c \in WClusters : Len(wqueue[c]) <= 8
  /\ \A n \in wrejected :
       /\ \A c \in WClusters : \A i \in DOMAIN wqueue[c] : wqueue[c][i].n # n
       /\ \A op \in wrun : op.n # n

\* a command was answered 503 by a cluster whose queue holds 8 commands
C11_Witness ==
  \E c \in WClusters : Len(wqueue[c]) = 8 /\ wrejected # {}

C12_BoundedRetry ==
  [][\A op \in wrun :
       op.inStep =>
         /\ \A o \in wrun' :
              (o.n = op.n /\ o # op) =>
                \/ /\ o.inStep /\ o.step = op.step
                   /\ o.attempt = op.attempt + 1 /\ o.attempt <= 6
                   /\ o.wait = (IF op.attempt = 1 THEN 1
                                ELSE IF 2 * op.wait < 30 THEN 2 * op.wait
                                ELSE 30)
                   /\ wstatus' = wstatus
                \/ ~o.inStep /\ o.step = op.step + 1
         /\ (\A o \in wrun' : o.n # op.n) => wstatus'[op.c] = "failed"]_vars

\* the sixth attempt of a provider call is in flight, after a wait of 16 s
C12_Witness ==
  \E op \in wrun : op.inStep /\ op.attempt = 6 /\ op.wait = 16

\* C14: a command issued on the page of a cluster that is failed leaves the
\* cluster's deployments as they are; the delete of the cluster is accepted
\* (the cluster becomes deleting).
C14_FailedNotMutated ==
  [][ops' # ops =>
       \A i \in DOMAIN clusters :
         clusters[i].status = FAILED =>
           \E j \in DOMAIN clusters' :
             /\ clusters'[j].id = clusters[i].id
             /\ clusters'[j].deployments = clusters[i].deployments
             /\ clusters'[j].status \in {FAILED, DELETING}]_vars

\* C16: every cluster that is running has a non-empty access_ip, and every
\* cluster that is pending or creating has none.
C16_AccessIp ==
  \A i \in DOMAIN clusters :
    /\ clusters[i].status = RUNNING => clusters[i].access_ip # ""
    /\ clusters[i].status \in {PENDING, CREATING} => clusters[i].access_ip = ""

C20_PoolRanges ==
  /\ \A i \in DOMAIN nodePools :
       /\ nodePools[i].count \in 1 .. 20
       /\ nodePools[i].autoscaling.minNodes \in 0 .. 10
       /\ nodePools[i].autoscaling.maxNodes \in 1 .. 10
       /\ nodePools[i].autoscaling.minNodes <= nodePools[i].autoscaling.maxNodes
  /\ \A i \in DOMAIN apiPayload :
       i > 1 =>
         /\ parseInt(apiPayload[i].number_of_nodes) \in 1 .. 20
         /\ apiPayload[i].autoscaling.min_nodes \in 0 .. 10
         /\ apiPayload[i].autoscaling.max_nodes \in 1 .. 10
         /\ apiPayload[i].autoscaling.min_nodes <= apiPayload[i].autoscaling.max_nodes

\* C17: a deployment with an enabled subdomain or domain_path endpoint is
\* accepted only if its cluster has a domain name: no deployment that
\* handleSubmit hands to createDeployment has such an endpoint on a cluster
\* without one.
C17_DomainRequired ==
  deployment # Null =>
    \A i \in DOMAIN deployment.accessEndpoints :
       deployment.accessEndpoints[i].access_type \in {"subdomain", "domain_path"}
         => hasDomain

C19_NormalizeIdempotent ==
  deployment # Null =>
    \A i \in DOMAIN deployment.accessEndpoints :
       formattedValue(deployment.accessEndpoints[i].access_type,
                      deployment.accessEndpoints[i].value, domainName)
         = deployment.accessEndpoints[i].value

\* the entries of the store's cluster list that stand for a row of the
\* control plane: they carry its name and do not belong to a create request
\* that is unanswered or was refused
EntriesFor(r) ==
  {i \in DOMAIN clusters :
     /\ clusters[i].name = r.name
     /\ clusters[i].id \notin errored
     /\ ~ \E c \in calls : c.op = "createCluster" /\ c.id = clusters[i].id
                            /\ c.ph \in {"sent", "err"}}

\* C24: from the moment a create-cluster request has been accepted until the
\* cluster is deleted, the store's cluster list holds exactly one entry for
\* that cluster, under every interleaving of createCluster with fetchClusters
\* calls and their responses.
C24_ExactlyOneEntry ==
  "deleting" \notin Range(domainActivities) =>
    \A i \in DOMAIN bClusters : Cardinality(EntriesFor(bClusters[i])) = 1

\* the step in which the store's operation handles the answer or the timer
\* it was suspended at, and ends
Handled(c) == calls' = calls \ {c} /\ nextId' = nextId

\* C26: if the delete-deployment request fails, no 'removed' activity entry
\* is recorded for the deployment: the step that handles the failure leaves
\* the activity log as it was.
C26_FailedDeleteNotRemoved ==
  [][\A c \in calls :
       (c.op = "deleteDeployment" /\ c.ph = "err" /\ Handled(c))
         => domainActivities' = domainActivities]_vars

\* C27: when the completion of one deployment is recorded, volumes in
\* creating status that belong to other operations keep their status: the
\* temporary volume of a createVolume still in progress is left as it is.
C27_CompletionFrame ==
  [][\A c \in calls :
       (c.op = "createDeployment" /\ c.ph = "timer" /\ Handled(c))
         => \A v \in calls : v.op = "createVolume" =>
              \A i \in DOMAIN volumes : volumes[i].id = v.id =>
                 /\ i \in DOMAIN volumes'
                 /\ volumes'[i].status = volumes[i].status]_vars

\* C28: if a delete-volume request fails, the volume returns to the status
\* it had immediately before the delete was requested.
C28_FailedDeleteRestores ==
  [][\A c \in calls :
       (c.op = "deleteVolume" /\ c.ph = "err" /\ Handled(c))
         => \A i \in DOMAIN volumes : volumes[i].id = c.id =>
              /\ i \in DOMAIN volumes'
              /\ volumes'[i].status = c.prev]_vars

\* C22: no two clusters have the same name and no two deployments in one
\* cluster have the same name, in the store's cluster list as among the rows
\* of the control plane.
C22_NamesUnique ==
  /\ \A i \in DOMAIN clusters : \A j \in DOMAIN clusters :
        i # j => clusters[i].name # clusters[j].name
  /\ \A i \in DOMAIN clusters :
        \A j \in DOMAIN clusters[i].deployments :
          \A k \in DOMAIN clusters[i].deployments :
            j # k => clusters[i].deployments[j].name # clusters[i].deployments[k].name
  /\ \A i \in DOMAIN bClusters : \A j \in DOMAIN bClusters :
        i # j => bClusters[i].name # bClusters[j].name
  /\ \A i \in DOMAIN bDeployments : \A j \in DOMAIN bDeployments :
        (i # j /\ bDeployments[i].cluster_id = bDeployments[j].cluster_id)
          => bDeployments[i].name # bDeployments[j].name

\* C23: with the Airflow custom image toggle on, validation does not look at
\* the version field, and the configuration step is left for the volumes
\* step only with a registry URL and an image tag filled in.
C23_CustomImageNeedsUrlAndTag ==
  [][IsTrue(config, "use_custom_image") =>
       /\ validateAirflowConfig(config)
            = validateAirflowConfig(Spread(config, "version", ""))
       /\ (step = "configuration" /\ step' = "volumes")
            => /\ ~Falsy(config, "private_registry_url")
               /\ ~Falsy(config, "private_registry_image_tag")]_vars

\* C25: the wizard hands a deployment to createDeployment only from the
\* access step, with a config that passes validation, every required
\* endpoint configured with a non-empty value, and every formatted endpoint
\* checked and reported free; a report of a conflict or a failed check
\* means no call.
C25_DeployOnlyAfterChecks ==
  [][deployment' # deployment =>
       /\ step = "access"
       /\ validateAirflowConfig(config)
       /\ \A i \in DOMAIN accessEndpoints : accessEndpoints[i].required =>
            \E j \in DOMAIN endpointConfigs :
               /\ endpointConfigs[j].name = accessEndpoints[i].name
               /\ endpointConfigs[j].value # <<>>
       /\ \A j \in DOMAIN endpointConfigs : endpointConfigs[j].value # <<>>
       /\ deployment'.accessEndpoints = formattedEndpoints
       /\ DOMAIN deployment'.reports = DOMAIN formattedEndpoints
       /\ \A i \in DOMAIN deployment'.reports : deployment'.reports[i] = "free"]_vars

\* a deployment of two endpoints was handed over
C25_Witness ==
  /\ deployment # Null
  /\ Len(deployment.accessEndpoints) = 2
  /\ step = "closed"

Answered(c, d) ==
  /\ c \in calls /\ c.ph = "sent" /\ d \in calls' /\ d.n = c.n
  /\ d.ph # "sent" /\ d.resp # "network"

RowStatuses(c) ==
  IF c.op = "downloadKubeconfig"
    THEN {r.status : r \in {x \in Range(bClusters) : ApiId(x.id) = c.id}}
    ELSE {r.status : r \in {x \in Range(bDeployments) :
                              ApiId(x.id) = c.id /\ ApiId(x.cluster_id) = c.cid}}

\* C21: a kubeconfig is served only for a cluster whose row is running and
\* credentials only for a deployment whose row is running; a request on a
\* row in any other status is refused with 409.
C21_ServedOnlyWhenRunning ==
  [][\A c \in calls : \A d \in calls' :
       (c.op \in {"downloadKubeconfig", "getDeploymentCredentials"} /\ Answered(c, d))
         => /\ d.ph = "ok" => RowStatuses(c) = {RUNNING}
            /\ (RowStatuses(c) # {} /\ RowStatuses(c) # {RUNNING})
                 => d.ph = "err" /\ d.resp = "conflict"]_vars

\* a request sent while the store showed running was refused because the row
\* had left running, and another was served
C21_Witness ==
  /\ \E c \in calls : c.op = "getDeploymentCredentials" /\ c.resp = "conflict"
  /\ \E c \in calls : c.op = "downloadKubeconfig" /\ c.ph = "ok"

\* C29: whenever the deployment's status is not running the health status
\* the hook reports is pending, also when a check that started while the
\* deployment was running ends after the status changed.
C29_PendingUnlessRunning ==
  health.deploymentStatus # RUNNING => health.healthStatus = "pending"

\* C30: the create-cluster dialog calls createCluster only with a name that
\* is not empty and differs, whatever the case, from the name of every
\* cluster in the store, with a provider selected, the Hetzner API token and
\* both SSH key paths present and, when the Traefik dashboard is enabled, a
\* username of 3 to 20 characters and a password of 4 to 20 characters.
C30_CreateOnlyWhenValid ==
  [][(modal.currentStep = 5 /\ modal'.currentStep = 0) =>
       /\ trim(modal.name) # ""
       /\ \A i \in DOMAIN clusters :
            toLowerCase(clusters[i].name) # toLowerCase(modal.name)
       /\ modal.selectedProvider # ""
       /\ modal.providerApiToken # ""
       /\ modal.sshPrivateKeyPath # "" /\ modal.sshPublicKeyPath # ""
       /\ modal.traefik_dashboard.enabled =>
            /\ Len(modal.traefik_dashboard.username) \in 3..20
            /\ Len(modal.traefik_dashboard.password) \in 4..20]_vars

====
